---- MODULE Spec2Model ----
(***************************************************************************)
(* Gateway-mediated trust and session model of the LMS platform:           *)
(*   - auth-service: register / login / refresh / logout over the User     *)
(*     table, the RefreshToken table and the Redis session cache;          *)
(*   - api-gateway: authMiddleware and the proxy header injection;         *)
(*   - course-service / media-service: requireAuth / requireRole guards.   *)
(*                                                                         *)
(* Every handler is cut at its `await` points: one action executes the     *)
(* awaited store operation and the synchronous code that follows it up to  *)
(* the next await.  The clock is in milliseconds (Date), JWT iat/exp are   *)
(* in whole seconds (jsonwebtoken).                                        *)
(***************************************************************************)
EXTENDS Integers, Sequences, FiniteSets, TLC

VARIABLES
    revision,       \* which copy of the auth-service controllers is deployed
    now,            \* wall clock, milliseconds
    users,          \* User table
    refreshTokens,  \* RefreshToken table
    sessions,       \* Redis: session:<userId> -> payload
    nextUserId,     \* id generator of the User table
    nextTokenId,    \* id generator of the RefreshToken table
    req,            \* in-flight auth-service requests (one record per slot)
    issued,         \* token strings sent to a client in a 2xx response
    deletedTokens,  \* history: token strings whose row was deleted
    loggedOut,      \* history: token strings deleted by a logout that returned 200
    budget,         \* requests that may still start: in all, and while another is in flight
    tickCount,      \* number of clock advances
    gw,             \* api-gateway: the request being handled and its outcome
    ds,             \* course/media service: the request being handled and its outcome
    hits,           \* api-gateway limiter: requests counted in the current window
    boot,           \* process.env and how far auth-service and api-gateway have started
    call,           \* one call of a token verifier: its arguments and what it returned
    redisUp,        \* whether the Redis server answers the auth-service client
    assets,         \* media-service: MediaAsset table, by id
    files,          \* media-service: storage keys that hold a file
    mreq,           \* media-service: in-flight requests (one record per slot)
    mediaOps,       \* media-service requests that may still start
    courses,        \* course-service: Course table, by id
    chapters,       \* course-service: Chapter table, by id
    lessons,        \* course-service: Lesson table, by id
    nextLessonId,   \* course-service: id of the next Lesson row
    creq,           \* course-service: in-flight requests (one record per slot)
    courseOps       \* course-service requests that may still start

authVars == <<revision, now, users, refreshTokens, sessions, nextUserId,
              nextTokenId, req, issued, deletedTokens, loggedOut, budget, tickCount>>
edgeVars == <<gw, ds>>
mediaVars == <<assets, files, mreq, mediaOps>>
courseVars == <<courses, chapters, lessons, nextLessonId, creq, courseOps>>
sideVars == <<hits, boot, call, redisUp, mediaVars, courseVars>>
vars == <<revision, now, users, refreshTokens, sessions, nextUserId, nextTokenId,
          req, issued, deletedTokens, loggedOut, budget,
          tickCount, gw, ds, hits, boot, call, redisUp,
          assets, files, mreq, mediaOps,
          courses, chapters, lessons, nextLessonId, creq, courseOps>>

-----------------------------------------------------------------------------
(* Bounds *)
MaxOps == 3
MaxSeqOps == 4
MaxTicks == 1
MaxReq == 2
MaxOverlap == 1
MaxCacheOps == 4
MaxShortOps == 3
MaxFaultOps == 3
MaxRoleOps == 2
MaxAssets == 1
MaxMediaReq == 2
MaxMediaOps == 3
MaxCourses == 1
MaxChapters == 2
MaxLessons == 2
MaxCourseReq == 2
MaxCourseOps == 3
\* api-gateway limiter: the value the deployment gives RATE_LIMIT_MAX_REQUESTS
\* (index.ts: parseInt(process.env.RATE_LIMIT_MAX_REQUESTS || '100'))
RATE_LIMIT_MAX_REQUESTS == 2
\* longest JWT_SECRET the environment is given
MaxSecretLength == 33

Req == 1..MaxReq
AssetIds == 1..MaxAssets
MediaReq == 1..MaxMediaReq

-----------------------------------------------------------------------------
(* Program constants *)
ACCESS_EXPIRY_SECONDS == 900
REFRESH_EXPIRY_SECONDS == 604800
REFRESH_TOKEN_DAYS == 7
SESSION_TTL_SECONDS == 604800
MIN_PASSWORD_LENGTH == 8
MIN_NAME_LENGTH == 2
MS_PER_SECOND == 1000
MIN_SECRET_LENGTH == 32
FALLBACK_SECRET_LENGTH == 19
PRESIGNED_EXPIRY_SECONDS == 3600
MS_PER_DAY == 86400000

JWT_SECRET == "S"

-----------------------------------------------------------------------------
(* Input alphabets *)
Emails == {"a@x.io", "b@x.io"}
BadEmail == "not-an-email"
Passwords == {"Password123", "short"}
WrongPassword == "WrongPass999"
Names == {"Alice", "A"}
NoRole == "<absent>"
RequestedRoles == {NoRole, "INSTRUCTOR", "ADMIN"}
\* a step into a later clock second, and a step past the lifetime of a refresh token
TickSteps == {2 * MS_PER_SECOND, (REFRESH_EXPIRY_SECONDS + 1) * MS_PER_SECOND}

StrLen(s) ==
    CASE s = "Password123" -> 11
      [] s = "WrongPass999" -> 12
      [] s = "short" -> 5
      [] s = "Alice" -> 5
      [] s = "A" -> 1
      [] OTHER -> 0

IsEmail(s) == s \in Emails

-----------------------------------------------------------------------------
(* Sentinels: absent values keep the shape of the present ones *)
NoToken == [userId |-> 0, email |-> "", role |-> "", type |-> "", iat |-> 0, exp |-> 0,
            alg |-> "", secret |-> ""]
NoPair == [accessToken |-> NoToken, refreshToken |-> NoToken]
NoUser == [id |-> 0, email |-> "", password |-> "", name |-> "", role |-> ""]
NoRow == [id |-> 0, token |-> NoToken, userId |-> 0, expiresAt |-> 0]
NoSession == [email |-> "", role |-> "", at |-> 0, expiresAt |-> 0]
NoBody == [email |-> "", password |-> "", name |-> "", role |-> "", token |-> NoToken,
           scheme |-> "", xUserId |-> 0]

Idle == [op |-> "idle", pc |-> "idle", body |-> NoBody, payload |-> NoToken,
         stored |-> NoRow, user |-> NoUser, tokens |-> NoPair, expiry |-> 0,
         removed |-> {}, revokedAtStart |-> FALSE, loggedOutAtStart |-> FALSE,
         storedAtStart |-> FALSE, rival |-> FALSE, freshAtStart |-> FALSE,
         again |-> FALSE, expiredAtStart |-> FALSE, sessionAtStart |-> FALSE,
         alone |-> FALSE,
         status |-> 0, message |-> "", data |-> NoPair]

-----------------------------------------------------------------------------
(* Token Service (lib/jwt.ts).  A token string is determined by its header *)
(* and payload and the secret (HS256 is deterministic), so a token is      *)
(* modelled by the record of those fields: equal records = equal strings.  *)
(* alg is the header's algorithm, secret the key under which the signature *)
(* verifies ("" when there is no such key: an unsigned, altered or          *)
(* malformed string).                                                      *)

ClockSeconds(t) == t \div MS_PER_SECOND

\* jwt.sign(payload, secret, {expiresIn, algorithm: 'HS256'})
Sign(payload, type, secret, ttl, t) ==
    [userId |-> payload.userId, email |-> payload.email, role |-> payload.role,
     type |-> type, iat |-> ClockSeconds(t), exp |-> ClockSeconds(t) + ttl,
     alg |-> "HS256", secret |-> secret]

\* revision 2 embeds type: 'access' | 'refresh'; revision 1 signs the bare payload
TypeField(kind) == IF revision = 2 THEN kind ELSE "untyped"

generateAccessToken(payload, secret, t) ==
    Sign(payload, TypeField("access"), secret, ACCESS_EXPIRY_SECONDS, t)

generateRefreshToken(payload, secret, t) ==
    Sign(payload, TypeField("refresh"), secret, REFRESH_EXPIRY_SECONDS, t)

generateTokenPair(payload, secret, t) ==
    [accessToken |-> generateAccessToken(payload, secret, t),
     refreshToken |-> generateRefreshToken(payload, secret, t)]

\* jsonwebtoken: what jwt.verify accepts for a string secret when the caller
\* names no algorithms
HS_SUPPORTED_ALGS == {"HS256", "HS384", "HS512"}

\* the exception of jwt.verify (JsonWebTokenError, TokenExpiredError)
Thrown == [NoToken EXCEPT !.type = "<thrown>"]

\* jsonwebtoken jwt.verify(token, secret, {algorithms}): the decoded payload;
\* it throws on a malformed string, an algorithm that is not allowed, a
\* missing or bad signature, or an exp that has been reached
jwtVerify(token, secret, algorithms, t) ==
    IF /\ token.alg \in algorithms
       /\ token.secret = secret
       /\ ClockSeconds(t) < token.exp
    THEN token ELSE Thrown

\* verifyToken with ignoreExpiration
verifyToken_IgnoreExpiration(token, secret, t) ==
    IF token.alg = "HS256" /\ token.secret = secret THEN token ELSE NoToken

\* jwt.verify(token, secret, {algorithms: ['HS256']}) inside try/catch:
\* the decoded payload, or null (NoToken) when jwt.verify throws.  The type
\* field is not looked at.
verifyToken(token, secret, t) ==
    LET decoded == jwtVerify(token, secret, {"HS256"}, t) IN
    IF decoded = Thrown THEN NoToken ELSE decoded

Claims(u) == [userId |-> u.id, email |-> u.email, role |-> u.role]

\* bcrypt.hash / bcrypt.compare
Hash(pw) == <<"bcrypt", pw>>
Compare(pw, hash) == hash = Hash(pw)

\* new Date(); setDate(getDate() + REFRESH_TOKEN_DAYS)
RefreshTokenExpiry(t) == t + REFRESH_TOKEN_DAYS * MS_PER_DAY

-----------------------------------------------------------------------------
(* Store access (Prisma) *)
UserByEmail(email) == {u \in users : u.email = email}
UserById(id) == CHOOSE u \in users : u.id = id
RowsByToken(tok) == {row \in refreshTokens : row.token = tok}
RowsById(id) == {row \in refreshTokens : row.id = id}
RowsOfUser(uid) == {row \in refreshTokens : row.userId = uid}
TokenStrings(rows) == {row.token : row \in rows}

NewRow(tok, uid, expiresAt) ==
    [id |-> nextTokenId, token |-> tok, userId |-> uid, expiresAt |-> expiresAt]

\* res.status(status).json({success, code, message, data, trace_id}); the
\* handler's locals are gone once it has answered
ReplyData(rec, status, message, data) ==
    [Idle EXCEPT !.op = rec.op, !.body = rec.body,
                 !.revokedAtStart = rec.revokedAtStart,
                 !.loggedOutAtStart = rec.loggedOutAtStart,
                 !.storedAtStart = rec.storedAtStart, !.rival = rec.rival,
                 !.freshAtStart = rec.freshAtStart, !.again = rec.again,
                 !.expiredAtStart = rec.expiredAtStart,
                 !.sessionAtStart = rec.sessionAtStart, !.alone = rec.alone,
                 !.pc = "done", !.status = status, !.message = message, !.data = data]

Reply(rec, status, message) == ReplyData(rec, status, message, NoPair)

\* redisClient.setEx(`session:${userId}`, ttl, JSON.stringify(data)); the
\* promise rejects when the server does not answer (redisUp)
setSession(uid, email, role) ==
    sessions' = [sessions EXCEPT ![uid] =
        [email |-> email, role |-> role, at |-> now,
         expiresAt |-> now + SESSION_TTL_SECONDS * MS_PER_SECOND]]

\* redisClient.del(`session:${userId}`)
deleteSession(uid) ==
    sessions' = [sessions EXCEPT ![uid] = NoSession]

UserIds == 1..Cardinality(Emails)

-----------------------------------------------------------------------------
(* Edge: requests and outcomes of the api-gateway and the downstream services *)

\* a header that is not sent is the empty string
NoHeader == ""
NoFwd == [target |-> "", path |-> <<>>, xUserId |-> NoHeader, xUserRole |-> NoHeader,
          xTraceId |-> NoHeader]
NoGwRequest == [method |-> "", path |-> <<>>, scheme |-> "absent", token |-> NoToken,
                xUserId |-> NoHeader, xUserRole |-> NoHeader, xTraceId |-> NoHeader]
NoGw == [request |-> NoGwRequest, trail |-> <<>>, status |-> 0, message |-> "",
         user |-> NoToken, traceId |-> NoHeader, bodyTraceId |-> NoHeader, fwd |-> NoFwd]
NoDsRequest == [service |-> "", method |-> "", path |-> <<>>, xUserId |-> NoHeader,
                xUserRole |-> NoHeader, bearer |-> NoToken]
NoDs == [request |-> NoDsRequest, route |-> "", status |-> 0, answeredBy |-> "",
         userId |-> NoHeader, userRole |-> NoHeader, dbAccess |-> FALSE]

NoAsset == [status |-> "", uploaderId |-> "", presignedExp |-> 0, url |-> ""]
MediaIdle == [op |-> "idle", pc |-> "idle", mediaId |-> 0, uploaderId |-> "",
              statusAtStart |-> "", status |-> 0]

\* course-service rows and request slots
CourseIds == 1..MaxCourses
ChapterIds == 1..MaxChapters
LessonIds == 1..MaxLessons
CourseReq == 1..MaxCourseReq
NoCourse == [instructorId |-> "", status |-> "", totalLessons |-> 0]
NoChapter == [courseId |-> 0]
NoLesson == [chapterId |-> 0]
CourseIdle == [op |-> "idle", pc |-> "idle", courseId |-> 0, chapterId |-> 0,
               lessonId |-> 0, instructorId |-> "", valid |-> TRUE, status |-> 0]

\* the course-service with empty tables and nothing to do
CourseServiceIdle ==
    /\ courses = [c \in CourseIds |-> NoCourse]
    /\ chapters = [ch \in ChapterIds |-> NoChapter]
    /\ lessons = [l \in LessonIds |-> NoLesson]
    /\ nextLessonId = 1
    /\ creq = [k \in CourseReq |-> CourseIdle]
    /\ courseOps = 0

\* process.env: JWT_SECRET by its length (Unset when the variable is absent),
\* DATABASE_URL and REDIS_URL by whether they are URLs
Unset == 0 - 1
Environments ==
    [JWT_SECRET : {Unset} \cup 0..MaxSecretLength, DATABASE_URL : BOOLEAN, REDIS_URL : BOOLEAN]
Running ==
    [env |-> [JWT_SECRET |-> MIN_SECRET_LENGTH, DATABASE_URL |-> TRUE, REDIS_URL |-> TRUE],
     auth |-> "serving", gateway |-> "serving", gatewaySecret |-> MIN_SECRET_LENGTH]

-----------------------------------------------------------------------------
\* the stores, the request slots and the edge before any request
InitStores ==
    /\ revision \in {1, 2}
    /\ now = 0
    /\ users = {}
    /\ refreshTokens = {}
    /\ sessions = [u \in UserIds |-> NoSession]
    /\ nextUserId = 1
    /\ nextTokenId = 1
    /\ req = [r \in Req |-> Idle]
    /\ issued = {}
    /\ deletedTokens = {}
    /\ loggedOut = {}
    /\ tickCount = 0
    /\ gw = NoGw
    /\ ds = NoDs
    /\ hits = 0
    /\ redisUp = TRUE
    /\ assets = [id \in AssetIds |-> NoAsset]
    /\ files = {}
    /\ mreq = [m \in MediaReq |-> MediaIdle]

NoCall == [token |-> NoToken, secret |-> "", at |-> 0, by |-> "", result |-> NoToken]

\* both processes started with a valid environment
InitState ==
    InitStores /\ boot = Running /\ call = NoCall /\ mediaOps = 0 /\ CourseServiceIdle

\* requests may overlap
Init == InitState /\ budget = [ops |-> MaxOps, overlap |-> MaxOverlap]

\* requests arrive one after the other
InitSeq == InitState /\ budget = [ops |-> MaxSeqOps, overlap |-> 0]

\* requests arrive one after the other, a short session
InitShort == InitState /\ budget = [ops |-> MaxShortOps, overlap |-> 0]

\* a slot is free before its first request and after its response was sent;
\* slots are interchangeable, so a request takes the lowest free one
Free(r) == req[r].pc \in {"idle", "done"}
Overlapping == \E q \in Req : ~Free(q)
CanStart(r) ==
    /\ Free(r)
    /\ \A q \in Req : q < r => ~Free(q)
    /\ budget.ops > 0
    /\ Overlapping => budget.overlap > 0
Count ==
    budget' = [ops |-> budget.ops - 1,
               overlap |-> IF Overlapping THEN budget.overlap - 1 ELSE budget.overlap]

\* alone: no other request is in flight now, and none can start before this
\* one has answered
Begin(op, body) ==
    [Idle EXCEPT !.op = op, !.body = body,
                 !.alone = ~Overlapping /\ budget.overlap = 0,
                 !.sessionAtStart = /\ body.token.userId \in UserIds
                                    /\ sessions[body.token.userId] # NoSession]

-----------------------------------------------------------------------------
(* POST /register *)

\* z.enum([...]) of the role field, per copy of register.controller.ts
registerRoles == {"STUDENT", "INSTRUCTOR"}
registerRolesV1 == {"STUDENT", "INSTRUCTOR", "ADMIN"}
RoleEnum == IF revision = 2 THEN registerRoles ELSE registerRolesV1

\* registerSchema.parse(req.body): TRUE iff no ZodError
registerSchemaOk(body) ==
    /\ IsEmail(body.email)
    /\ StrLen(body.password) >= MIN_PASSWORD_LENGTH
    /\ StrLen(body.name) >= MIN_NAME_LENGTH
    /\ (body.role = NoRole \/ body.role \in RoleEnum)

\* .default('STUDENT')
registerSchemaRole(body) == IF body.role = NoRole THEN "STUDENT" ELSE body.role

\* well-formed bodies with every requested role, and one body per broken field
RegisterBodies ==
    {[NoBody EXCEPT !.email = "a@x.io", !.password = "Password123", !.name = "Alice", !.role = ro] :
        ro \in RequestedRoles}
    \cup {[NoBody EXCEPT !.email = "b@x.io", !.password = "Password123", !.name = "Alice", !.role = NoRole],
          [NoBody EXCEPT !.email = BadEmail, !.password = "Password123", !.name = "Alice", !.role = NoRole],
          [NoBody EXCEPT !.email = "a@x.io", !.password = "short", !.name = "Alice", !.role = NoRole],
          [NoBody EXCEPT !.email = "a@x.io", !.password = "Password123", !.name = "A", !.role = NoRole]}

\* parse the body, then prisma.user.findUnique({where: {email}})
register_findUser(r, body) ==
    /\ CanStart(r)
    /\ Count
    /\ LET rec == [Begin("register", body) EXCEPT
                      !.freshAtStart = UserByEmail(body.email) = {}] IN
       req' = [req EXCEPT ![r] =
          IF ~registerSchemaOk(body) THEN Reply(rec, 400, "validation")
          ELSE IF UserByEmail(body.email) # {} THEN Reply(rec, 409, "Email already registered")
          ELSE [rec EXCEPT !.pc = "createUser"]]
    /\ UNCHANGED <<sideVars, revision, now, users, refreshTokens, sessions, nextUserId,
                   nextTokenId, issued, deletedTokens, loggedOut, tickCount, gw, ds>>

\* prisma.user.create (email is unique: P2002 lands in the generic 500 branch),
\* then generateTokenPair and the row expiry
register_createUser(r) ==
    /\ req[r].op = "register" /\ req[r].pc = "createUser"
    /\ IF UserByEmail(req[r].body.email) # {}
       THEN /\ req' = [req EXCEPT ![r] =
                   Reply(@, 500, "Internal server error during registration")]
            /\ UNCHANGED <<users, nextUserId>>
       ELSE LET user == [id |-> nextUserId, email |-> req[r].body.email,
                         password |-> Hash(req[r].body.password),
                         name |-> req[r].body.name,
                         role |-> registerSchemaRole(req[r].body)] IN
            /\ users' = users \cup {user}
            /\ nextUserId' = nextUserId + 1
            /\ req' = [req EXCEPT ![r] =
                   [@ EXCEPT !.pc = "createToken", !.user = user,
                             !.tokens = generateTokenPair(Claims(user), JWT_SECRET, now),
                             !.expiry = RefreshTokenExpiry(now)]]
    /\ UNCHANGED <<sideVars, revision, now, refreshTokens, sessions, nextTokenId, issued,
                   deletedTokens, loggedOut, budget, tickCount, gw, ds>>

\* prisma.refreshToken.create (token is unique)
register_createToken(r) ==
    /\ req[r].op = "register" /\ req[r].pc = "createToken"
    /\ IF RowsByToken(req[r].tokens.refreshToken) # {}
       THEN /\ req' = [req EXCEPT ![r] =
                   Reply(@, 500, "Internal server error during registration")]
            /\ UNCHANGED <<refreshTokens, nextTokenId>>
       ELSE /\ refreshTokens' = refreshTokens \cup
                   {NewRow(req[r].tokens.refreshToken, req[r].user.id, req[r].expiry)}
            /\ nextTokenId' = nextTokenId + 1
            /\ req' = [req EXCEPT ![r] = [@ EXCEPT !.pc = "setSession"]]
    /\ UNCHANGED <<sideVars, revision, now, users, sessions, nextUserId, issued,
                   deletedTokens, loggedOut, budget, tickCount, gw, ds>>

\* setSession, then 201 with the user and the token pair
register_setSession(r) ==
    /\ req[r].op = "register" /\ req[r].pc = "setSession"
    /\ IF redisUp
       THEN /\ setSession(req[r].user.id, req[r].user.email, req[r].user.role)
            /\ req' = [req EXCEPT ![r] =
                   ReplyData(@, 201, "User registered successfully", req[r].tokens)]
            /\ issued' = issued \cup {req[r].tokens.accessToken, req[r].tokens.refreshToken}
       ELSE /\ req' = [req EXCEPT ![r] =
                   Reply(@, 500, "Internal server error during registration")]
            /\ UNCHANGED <<sessions, issued>>
    /\ UNCHANGED <<sideVars, revision, now, users, refreshTokens, nextUserId, nextTokenId,
                   deletedTokens, loggedOut, budget, tickCount, gw, ds>>

-----------------------------------------------------------------------------
(* POST /login *)

LoginBodies ==
    {[NoBody EXCEPT !.email = "a@x.io", !.password = p] : p \in {"Password123", WrongPassword}}
    \cup {[NoBody EXCEPT !.email = "b@x.io", !.password = "Password123"]}

\* login_findUser with a reply of its own for an unknown email
login_findUser_UserNotFound(r, body) ==
    /\ CanStart(r)
    /\ Count
    /\ LET rec == Begin("login", body)
           found == UserByEmail(body.email) IN
       req' = [req EXCEPT ![r] =
          IF found = {} THEN Reply(rec, 404, "User not found")
          ELSE LET user == CHOOSE u \in found : TRUE IN
               IF ~Compare(body.password, user.password)
               THEN Reply(rec, 401, "Invalid email or password")
               ELSE [rec EXCEPT !.pc = "createToken", !.user = user,
                                !.tokens = generateTokenPair(Claims(user), JWT_SECRET, now),
                                !.expiry = RefreshTokenExpiry(now)]]
    /\ UNCHANGED <<sideVars, revision, now, users, refreshTokens, sessions, nextUserId,
                   nextTokenId, issued, deletedTokens, loggedOut, tickCount, gw, ds>>

\* prisma.user.findUnique, bcrypt.compare, then generateTokenPair
login_findUser(r, body) ==
    /\ CanStart(r)
    /\ Count
    /\ LET rec == Begin("login", body)
           found == UserByEmail(body.email) IN
       req' = [req EXCEPT ![r] =
          IF found = {} THEN Reply(rec, 401, "Invalid email or password")
          ELSE LET user == CHOOSE u \in found : TRUE IN
               IF ~Compare(body.password, user.password)
               THEN Reply(rec, 401, "Invalid email or password")
               ELSE [rec EXCEPT !.pc = "createToken", !.user = user,
                                !.tokens = generateTokenPair(Claims(user), JWT_SECRET, now),
                                !.expiry = RefreshTokenExpiry(now)]]
    /\ UNCHANGED <<sideVars, revision, now, users, refreshTokens, sessions, nextUserId,
                   nextTokenId, issued, deletedTokens, loggedOut, tickCount, gw, ds>>

\* prisma.refreshToken.create (token is unique)
login_createToken(r) ==
    /\ req[r].op = "login" /\ req[r].pc = "createToken"
    /\ IF RowsByToken(req[r].tokens.refreshToken) # {}
       THEN /\ req' = [req EXCEPT ![r] = Reply(@, 500, "Internal server error during login")]
            /\ UNCHANGED <<refreshTokens, nextTokenId>>
       ELSE /\ refreshTokens' = refreshTokens \cup
                   {NewRow(req[r].tokens.refreshToken, req[r].user.id, req[r].expiry)}
            /\ nextTokenId' = nextTokenId + 1
            /\ req' = [req EXCEPT ![r] = [@ EXCEPT !.pc = "setSession"]]
    /\ UNCHANGED <<sideVars, revision, now, users, sessions, nextUserId, issued,
                   deletedTokens, loggedOut, budget, tickCount, gw, ds>>

\* setSession, then 200 with the user and the token pair
login_setSession(r) ==
    /\ req[r].op = "login" /\ req[r].pc = "setSession"
    /\ IF redisUp
       THEN /\ setSession(req[r].user.id, req[r].user.email, req[r].user.role)
            /\ req' = [req EXCEPT ![r] =
                   ReplyData(@, 200, "Login successful", req[r].tokens)]
            /\ issued' = issued \cup {req[r].tokens.accessToken, req[r].tokens.refreshToken}
       ELSE /\ req' = [req EXCEPT ![r] = Reply(@, 500, "Internal server error during login")]
            /\ UNCHANGED <<sessions, issued>>
    /\ UNCHANGED <<sideVars, revision, now, users, refreshTokens, nextUserId, nextTokenId,
                   deletedTokens, loggedOut, budget, tickCount, gw, ds>>

-----------------------------------------------------------------------------
(* POST /refresh *)

\* a refresh-shaped token signed with another secret
ForgedToken == [userId |-> 1, email |-> "a@x.io", role |-> "ADMIN", type |-> "refresh",
                iat |-> 0, exp |-> REFRESH_EXPIRY_SECONDS, alg |-> "HS256", secret |-> "X"]

\* NoToken stands for the empty string (refreshSchema: min(1))
RefreshBodies == {[NoBody EXCEPT !.token = t] : t \in issued \cup {ForgedToken, NoToken}}

\* refreshSchema.parse, verifyToken
refresh_verify(r, body) ==
    /\ CanStart(r)
    /\ Count
    /\ LET rec == [Begin("refresh", body) EXCEPT
                      !.revokedAtStart = body.token \in deletedTokens,
                      !.loggedOutAtStart = body.token \in loggedOut,
                      !.storedAtStart = \E row \in RowsByToken(body.token) : row.expiresAt >= now,
                      !.expiredAtStart = \E row \in RowsByToken(body.token) : row.expiresAt < now,
                      !.rival = \E q \in Req : /\ req[q].op = "refresh" /\ ~Free(q)
                                                /\ req[q].body.token = body.token]
           payload == verifyToken(body.token, JWT_SECRET, now) IN
       req' = [req EXCEPT ![r] =
          IF body.token = NoToken THEN Reply(rec, 400, "validation")
          ELSE IF payload = NoToken THEN Reply(rec, 401, "Invalid or expired refresh token")
          ELSE [rec EXCEPT !.pc = "findToken", !.payload = payload]]
    /\ UNCHANGED <<sideVars, revision, now, users, refreshTokens, sessions, nextUserId,
                   nextTokenId, issued, deletedTokens, loggedOut, tickCount, gw, ds>>

\* refresh_findToken that also wants the session entry of the row's user
refresh_findToken_NeedsSession(r) ==
    /\ req[r].op = "refresh" /\ req[r].pc = "findToken"
    /\ LET found == RowsByToken(req[r].body.token) IN
       req' = [req EXCEPT ![r] =
          IF found = {} THEN Reply(@, 401, "Refresh token not found or revoked")
          ELSE LET row == CHOOSE x \in found : TRUE
                   user == UserById(row.userId) IN
               IF sessions[row.userId] = NoSession
               THEN Reply(@, 401, "Refresh token not found or revoked")
               ELSE IF row.expiresAt < now
               THEN [@ EXCEPT !.pc = "deleteExpired", !.stored = row, !.user = user]
               ELSE [@ EXCEPT !.pc = IF revision = 2 THEN "rotate" ELSE "deleteOld",
                              !.stored = row, !.user = user,
                              !.tokens = generateTokenPair(Claims(user), JWT_SECRET, now),
                              !.expiry = RefreshTokenExpiry(now)]]
    /\ UNCHANGED <<sideVars, revision, now, users, refreshTokens, sessions, nextUserId,
                   nextTokenId, issued, deletedTokens, loggedOut, budget, tickCount, gw, ds>>

\* prisma.refreshToken.findUnique({where: {token}, include: {user}}), the
\* expiry check, generateTokenPair
refresh_findToken(r) ==
    /\ req[r].op = "refresh" /\ req[r].pc = "findToken"
    /\ LET found == RowsByToken(req[r].body.token) IN
       req' = [req EXCEPT ![r] =
          IF found = {} THEN Reply(@, 401, "Refresh token not found or revoked")
          ELSE LET row == CHOOSE x \in found : TRUE
                   user == UserById(row.userId) IN
               IF row.expiresAt < now
               THEN [@ EXCEPT !.pc = "deleteExpired", !.stored = row, !.user = user]
               ELSE [@ EXCEPT !.pc = IF revision = 2 THEN "rotate" ELSE "deleteOld",
                              !.stored = row, !.user = user,
                              !.tokens = generateTokenPair(Claims(user), JWT_SECRET, now),
                              !.expiry = RefreshTokenExpiry(now)]]
    /\ UNCHANGED <<sideVars, revision, now, users, refreshTokens, sessions, nextUserId,
                   nextTokenId, issued, deletedTokens, loggedOut, budget, tickCount, gw, ds>>

\* prisma.refreshToken.delete({where: {id}}) of the expired row: P2025 when
\* the row is gone lands in the generic 500 branch
refresh_deleteExpired(r) ==
    /\ req[r].op = "refresh" /\ req[r].pc = "deleteExpired"
    /\ IF RowsById(req[r].stored.id) = {}
       THEN /\ req' = [req EXCEPT ![r] =
                   Reply(@, 500, "Internal server error during token refresh")]
            /\ UNCHANGED <<refreshTokens, deletedTokens>>
       ELSE /\ refreshTokens' = refreshTokens \ RowsById(req[r].stored.id)
            /\ deletedTokens' = deletedTokens \cup {req[r].stored.token}
            /\ req' = [req EXCEPT ![r] = Reply(@, 401, "Refresh token has expired")]
    /\ UNCHANGED <<sideVars, revision, now, users, sessions, nextUserId, nextTokenId, issued,
                   loggedOut, budget, tickCount, gw, ds>>

\* revision 2: prisma.$transaction([delete old row, create new row]); a
\* missing old row (P2025) or a duplicate token (P2002) rolls back
refresh_rotate(r) ==
    /\ req[r].op = "refresh" /\ req[r].pc = "rotate"
    /\ LET old == RowsById(req[r].stored.id)
           rest == refreshTokens \ old IN
       IF old = {} \/ req[r].tokens.refreshToken \in TokenStrings(rest)
       THEN /\ req' = [req EXCEPT ![r] =
                   Reply(@, 500, "Internal server error during token refresh")]
            /\ UNCHANGED <<refreshTokens, nextTokenId, deletedTokens>>
       ELSE /\ refreshTokens' = rest \cup
                   {NewRow(req[r].tokens.refreshToken, req[r].user.id, req[r].expiry)}
            /\ nextTokenId' = nextTokenId + 1
            /\ deletedTokens' = deletedTokens \cup {req[r].stored.token}
            /\ req' = [req EXCEPT ![r] = [@ EXCEPT !.pc = "setSession"]]
    /\ UNCHANGED <<sideVars, revision, now, users, sessions, nextUserId, issued,
                   loggedOut, budget, tickCount, gw, ds>>

\* revision 1: prisma.refreshToken.delete({where: {id}}) on its own
refresh_deleteOld(r) ==
    /\ req[r].op = "refresh" /\ req[r].pc = "deleteOld"
    /\ IF RowsById(req[r].stored.id) = {}
       THEN /\ req' = [req EXCEPT ![r] =
                   Reply(@, 500, "Internal server error during token refresh")]
            /\ UNCHANGED <<refreshTokens, deletedTokens>>
       ELSE /\ refreshTokens' = refreshTokens \ RowsById(req[r].stored.id)
            /\ deletedTokens' = deletedTokens \cup {req[r].stored.token}
            /\ req' = [req EXCEPT ![r] = [@ EXCEPT !.pc = "createNew"]]
    /\ UNCHANGED <<sideVars, revision, now, users, sessions, nextUserId, nextTokenId, issued,
                   loggedOut, budget, tickCount, gw, ds>>

\* revision 1: prisma.refreshToken.create on its own
refresh_createNew(r) ==
    /\ req[r].op = "refresh" /\ req[r].pc = "createNew"
    /\ IF RowsByToken(req[r].tokens.refreshToken) # {}
       THEN /\ req' = [req EXCEPT ![r] =
                   Reply(@, 500, "Internal server error during token refresh")]
            /\ UNCHANGED <<refreshTokens, nextTokenId>>
       ELSE /\ refreshTokens' = refreshTokens \cup
                   {NewRow(req[r].tokens.refreshToken, req[r].user.id, req[r].expiry)}
            /\ nextTokenId' = nextTokenId + 1
            /\ req' = [req EXCEPT ![r] = [@ EXCEPT !.pc = "setSession"]]
    /\ UNCHANGED <<sideVars, revision, now, users, sessions, nextUserId, issued,
                   deletedTokens, loggedOut, budget, tickCount, gw, ds>>

\* refresh_setSession that leaves the session cache alone
refresh_setSession_NoWrite(r) ==
    /\ req[r].op = "refresh" /\ req[r].pc = "setSession"
    /\ req' = [req EXCEPT ![r] =
           ReplyData(@, 200, "Token refreshed successfully", req[r].tokens)]
    /\ issued' = issued \cup {req[r].tokens.accessToken, req[r].tokens.refreshToken}
    /\ UNCHANGED <<sideVars, revision, now, users, refreshTokens, sessions, nextUserId, nextTokenId,
                   deletedTokens, loggedOut, budget, tickCount, gw, ds>>

\* setSession, then 200 with the new token pair
refresh_setSession(r) ==
    /\ req[r].op = "refresh" /\ req[r].pc = "setSession"
    /\ IF redisUp
       THEN /\ setSession(req[r].user.id, req[r].user.email, req[r].user.role)
            /\ req' = [req EXCEPT ![r] =
                   ReplyData(@, 200, "Token refreshed successfully", req[r].tokens)]
            /\ issued' = issued \cup {req[r].tokens.accessToken, req[r].tokens.refreshToken}
       ELSE /\ req' = [req EXCEPT ![r] =
                   Reply(@, 500, "Internal server error during token refresh")]
            /\ UNCHANGED <<sessions, issued>>
    /\ UNCHANGED <<sideVars, revision, now, users, refreshTokens, nextUserId, nextTokenId,
                   deletedTokens, loggedOut, budget, tickCount, gw, ds>>

-----------------------------------------------------------------------------
(* POST /logout *)

\* an x-user-id header sent along with the request (0: not sent)
ForgedUserIds == {0, 2}

\* Authorization header: absent, "Bearer <token>", or "<token>" without prefix
LogoutBodies ==
    {[NoBody EXCEPT !.scheme = "absent"]}
    \cup {[NoBody EXCEPT !.scheme = sc, !.token = t, !.xUserId = h] :
            sc \in {"Bearer"}, t \in issued \cup {ForgedToken}, h \in ForgedUserIds}
    \cup {[NoBody EXCEPT !.scheme = "none", !.token = t] : t \in issued}

\* logout_verify that takes the token of a header without the Bearer prefix
logout_verify_AnyScheme(r, body) ==
    /\ CanStart(r)
    /\ Count
    /\ LET rec == [Begin("logout", body) EXCEPT
                      !.again = /\ req[r].op = "logout" /\ req[r].pc = "done"
                                /\ req[r].status = 200
                                /\ req[r].body.token = body.token
                                /\ body.scheme = "Bearer"]
           payload == verifyToken(body.token, JWT_SECRET, now) IN
       req' = [req EXCEPT ![r] =
          IF body.scheme = "absent"
          THEN Reply(rec, 401, "Missing or invalid Authorization header")
          ELSE IF payload = NoToken THEN Reply(rec, 401, "Invalid or expired token")
          ELSE [rec EXCEPT !.pc = "deleteMany", !.payload = payload]]
    /\ UNCHANGED <<sideVars, revision, now, users, refreshTokens, sessions, nextUserId,
                   nextTokenId, issued, deletedTokens, loggedOut, tickCount, gw, ds>>

\* header check, verifyToken
logout_verify(r, body) ==
    /\ CanStart(r)
    /\ Count
    /\ LET rec == [Begin("logout", body) EXCEPT
                      !.again = /\ req[r].op = "logout" /\ req[r].pc = "done"
                                /\ req[r].status = 200
                                /\ req[r].body.token = body.token
                                /\ body.scheme = "Bearer"]
           payload == verifyToken(body.token, JWT_SECRET, now) IN
       req' = [req EXCEPT ![r] =
          IF body.scheme # "Bearer"
          THEN Reply(rec, 401, "Missing or invalid Authorization header")
          ELSE IF payload = NoToken THEN Reply(rec, 401, "Invalid or expired token")
          ELSE [rec EXCEPT !.pc = "deleteMany", !.payload = payload]]
    /\ UNCHANGED <<sideVars, revision, now, users, refreshTokens, sessions, nextUserId,
                   nextTokenId, issued, deletedTokens, loggedOut, tickCount, gw, ds>>

\* logout_deleteMany trusting the x-user-id header when one is sent
logout_deleteMany_ByHeader(r) ==
    /\ req[r].op = "logout" /\ req[r].pc = "deleteMany"
    /\ LET uid == IF req[r].body.xUserId # 0 THEN req[r].body.xUserId ELSE req[r].payload.userId
           rows == RowsOfUser(uid) IN
       /\ refreshTokens' = refreshTokens \ rows
       /\ deletedTokens' = deletedTokens \cup TokenStrings(rows)
       /\ req' = [req EXCEPT ![r] =
              [@ EXCEPT !.pc = "deleteSession", !.removed = TokenStrings(rows)]]
    /\ UNCHANGED <<sideVars, revision, now, users, sessions, nextUserId, nextTokenId, issued,
                   loggedOut, budget, tickCount, gw, ds>>

\* prisma.refreshToken.deleteMany({where: {userId: payload.userId}})
logout_deleteMany(r) ==
    /\ req[r].op = "logout" /\ req[r].pc = "deleteMany"
    /\ LET rows == RowsOfUser(req[r].payload.userId) IN
       /\ refreshTokens' = refreshTokens \ rows
       /\ deletedTokens' = deletedTokens \cup TokenStrings(rows)
       /\ req' = [req EXCEPT ![r] =
              [@ EXCEPT !.pc = "deleteSession", !.removed = TokenStrings(rows)]]
    /\ UNCHANGED <<sideVars, revision, now, users, sessions, nextUserId, nextTokenId, issued,
                   loggedOut, budget, tickCount, gw, ds>>

\* logout_deleteSession that fails when the user has no session entry
logout_deleteSession_Strict(r) ==
    /\ req[r].op = "logout" /\ req[r].pc = "deleteSession"
    /\ deleteSession(req[r].payload.userId)
    /\ loggedOut' = loggedOut \cup req[r].removed
    /\ req' = [req EXCEPT ![r] =
           IF sessions[req[r].payload.userId] = NoSession
           THEN Reply(@, 500, "Internal server error during logout")
           ELSE Reply(@, 200, "Logout successful")]
    /\ UNCHANGED <<sideVars, revision, now, users, refreshTokens, nextUserId, nextTokenId,
                   issued, deletedTokens, budget, tickCount, gw, ds>>

\* deleteSession, then 200
logout_deleteSession(r) ==
    /\ req[r].op = "logout" /\ req[r].pc = "deleteSession"
    /\ IF redisUp
       THEN /\ deleteSession(req[r].payload.userId)
            /\ loggedOut' = loggedOut \cup req[r].removed
            /\ req' = [req EXCEPT ![r] = Reply(@, 200, "Logout successful")]
       ELSE /\ req' = [req EXCEPT ![r] = Reply(@, 500, "Internal server error during logout")]
            /\ UNCHANGED <<sessions, loggedOut>>
    /\ UNCHANGED <<sideVars, revision, now, users, refreshTokens, nextUserId, nextTokenId,
                   issued, deletedTokens, budget, tickCount, gw, ds>>

-----------------------------------------------------------------------------
(* Environment *)

Tick(d) ==
    /\ tickCount < MaxTicks
    /\ tickCount' = tickCount + 1
    /\ now' = now + d
    /\ UNCHANGED <<sideVars, revision, users, refreshTokens, sessions, nextUserId, nextTokenId,
                   req, issued, deletedTokens, loggedOut, budget, gw, ds>>

\* the Redis server stops answering / answers again
redis_down ==
    /\ redisUp
    /\ redisUp' = FALSE
    /\ UNCHANGED <<authVars, edgeVars, hits, boot, call, mediaVars, courseVars>>

redis_up ==
    /\ ~redisUp
    /\ redisUp' = TRUE
    /\ UNCHANGED <<authVars, edgeVars, hits, boot, call, mediaVars, courseVars>>

Next ==
    \/ \E r \in Req, body \in RegisterBodies : register_findUser(r, body)
    \/ \E r \in Req : register_createUser(r)
    \/ \E r \in Req : register_createToken(r)
    \/ \E r \in Req : register_setSession(r)
    \/ \E r \in Req, body \in LoginBodies : login_findUser(r, body)
    \/ \E r \in Req : login_createToken(r)
    \/ \E r \in Req : login_setSession(r)
    \/ \E r \in Req, body \in RefreshBodies : refresh_verify(r, body)
    \/ \E r \in Req : refresh_findToken(r)
    \/ \E r \in Req : refresh_deleteExpired(r)
    \/ \E r \in Req : refresh_rotate(r)
    \/ \E r \in Req : refresh_deleteOld(r)
    \/ \E r \in Req : refresh_createNew(r)
    \/ \E r \in Req : refresh_setSession(r)
    \/ \E r \in Req, body \in LogoutBodies : logout_verify(r, body)
    \/ \E r \in Req : logout_deleteMany(r)
    \/ \E r \in Req : logout_deleteSession(r)
    \/ \E d \in TickSteps : Tick(d)

Spec == Init /\ [][Next]_vars

SpecSeq == InitSeq /\ [][Next]_vars

SpecShort == InitShort /\ [][Next]_vars

-----------------------------------------------------------------------------
(* Properties of the auth-service *)

Done(r, op) == req[r].op = op /\ req[r].pc = "done"

\* the step with which request r of the given operation answers
Answers(r, op) == req[r].pc # "done" /\ req'[r].pc = "done" /\ req'[r].op = op

\* issuance kind of a token string (revision 1 has no type field)
KindOf(tok) == IF tok.exp - tok.iat = REFRESH_EXPIRY_SECONDS THEN "refresh" ELSE "access"

\* C1: two /refresh requests in flight together with the same stored,
\* unexpired token: once both have answered, exactly one answered 200 and the
\* other 401 'Refresh token not found or revoked'.
C1_ConcurrentRefreshExactlyOne ==
    \A r1, r2 \in Req :
        ( /\ r1 # r2
          /\ Done(r1, "refresh") /\ Done(r2, "refresh")
          /\ req[r1].body.token = req[r2].body.token
          /\ req[r1].storedAtStart /\ req[r2].storedAtStart
          /\ ClockSeconds(now) < req[r1].body.token.exp
          /\ req[r2].rival )
        => \E w, l \in {r1, r2} :
              /\ w # l
              /\ req[w].status = 200
              /\ req[l].status = 401
              /\ req[l].message = "Refresh token not found or revoked"

\* C2: while a rotation is under way (from the moment the delete+insert is
\* issued until /refresh has answered), with no other request in flight,
\* exactly one of the old row and the new row is in the store.
RotationPcs == {"rotate", "deleteOld", "createNew", "setSession"}
OldRowPresent(r) == RowsById(req[r].stored.id) # {}
NewRowPresent(r) ==
    \E row \in refreshTokens :
        /\ row.token = req[r].tokens.refreshToken
        /\ row.userId = req[r].user.id
        /\ row.id # req[r].stored.id
C2_RotationAllOrNothing ==
    \A r \in Req :
        (req[r].op = "refresh" /\ req[r].pc \in RotationPcs)
        => (OldRowPresent(r) /= NewRowPresent(r))

\* C3: a successful /refresh returns a refresh token string different from
\* the presented one, and the presented one had not been rotated away before.
C3_RefreshReturnsDifferentToken ==
    \A r \in Req :
        (Done(r, "refresh") /\ req[r].status = 200)
        => /\ req[r].data.refreshToken # req[r].body.token
           /\ ~req[r].revokedAtStart

\* C4: a /refresh that presents a token string whose row had been deleted
\* before the request started does not answer 200.
C4_DeletedTokenNeverAccepted ==
    \A r \in Req :
        (Done(r, "refresh") /\ req[r].revokedAtStart) => req[r].status # 200

\* C5: a /refresh that presents a token string which a completed (200)
\* logout had revoked before the request started answers 401.
C5_RefreshAfterLogoutRejected ==
    \A r \in Req :
        (Done(r, "refresh") /\ req[r].loggedOutAtStart) => req[r].status = 401

\* a register body whose email, password and name pass the schema
WellFormedRegister(body) ==
    /\ IsEmail(body.email)
    /\ StrLen(body.password) >= MIN_PASSWORD_LENGTH
    /\ StrLen(body.name) >= MIN_NAME_LENGTH

\* C11: a /register with a fresh valid email, a valid password and name and
\* the administrator role requested answers 201 and the user it creates has
\* the role STUDENT.
C11_AdminRequestBecomesStudent ==
    \A r \in Req :
        ( /\ Done(r, "register")
          /\ WellFormedRegister(req[r].body)
          /\ req[r].body.role = "ADMIN"
          /\ req[r].freshAtStart )
        => /\ req[r].status = 201
           /\ \E u \in UserByEmail(req[r].body.email) : u.role = "STUDENT"

\* C12: /register requests with the same email, however interleaved: at most
\* one User row has that email, and of two answered requests for an email
\* that was free when the first began, one answered 201 and the other 409.
C12_ConcurrentRegisterOneWinner ==
    /\ \A u1, u2 \in users : u1.email = u2.email => u1 = u2
    /\ \A r1, r2 \in Req :
          ( /\ r1 # r2
            /\ Done(r1, "register") /\ Done(r2, "register")
            /\ WellFormedRegister(req[r1].body) /\ WellFormedRegister(req[r2].body)
            /\ req[r1].body.role \in {NoRole} \cup RoleEnum
            /\ req[r2].body.role \in {NoRole} \cup RoleEnum
            /\ req[r1].body.email = req[r2].body.email
            /\ req[r1].freshAtStart )
          => \E w, l \in {r1, r2} :
                w # l /\ req[w].status = 201 /\ req[l].status = 409

\* the credentials of a login body do not match: no such user, or bcrypt.compare fails
BadCredentials(body) ==
    \/ UserByEmail(body.email) = {}
    \/ \E u \in UserByEmail(body.email) : ~Compare(body.password, u.password)

C14_LoginAlwaysAddsRow ==
    \A r \in Req :
        (Done(r, "login") /\ ~BadCredentials(req[r].body))
        => /\ req[r].status = 200
           /\ \E row \in RowsByToken(req[r].data.refreshToken) :
                 \E u \in UserByEmail(req[r].body.email) : row.userId = u.id

\* C15: a /logout that answers 200 removes every refresh-token row of the
\* user named by the userId claim of its bearer token and that user's session
\* entry, and nothing of any other user, whatever x-user-id header came along.
C15_LogoutRemovesOnlyOwn ==
    [][\A r \in Req :
          req[r].op = "logout" =>
             LET u == req[r].body.token.userId IN
             /\ (req[r].pc = "deleteMany" /\ req'[r].pc # "deleteMany")
                   => /\ refreshTokens' = {row \in refreshTokens : row.userId # u}
                      /\ sessions' = sessions
             /\ (req[r].pc = "deleteSession" /\ req'[r].pc # "deleteSession")
                   => /\ req'[r].pc = "done" /\ req'[r].status = 200
                      /\ refreshTokens' = refreshTokens
                      /\ RowsOfUser(u) = {}
                      /\ sessions'[u] = NoSession
                      /\ \A v \in UserIds \ {u} : sessions'[v] = sessions[v]]_vars

\* C15 witness: a logout answered 200 that carried the x-user-id of another
\* user, who still has the refresh token and the session
C15_Witness ==
    \E r \in Req :
        /\ Done(r, "logout") /\ req[r].status = 200
        /\ req[r].body.xUserId # 0
        /\ req[r].body.xUserId # req[r].body.token.userId
        /\ RowsOfUser(req[r].body.token.userId) = {}
        /\ sessions[req[r].body.token.userId] = NoSession
        /\ RowsOfUser(req[r].body.xUserId) # {}
        /\ sessions[req[r].body.xUserId] # NoSession

\* C16: a /logout repeated with the same still-valid bearer token right
\* after a /logout that answered 200 goes through all its steps, answers 200
\* and leaves the RefreshToken table and the session cache as the first left them.
C16_LogoutIdempotent ==
    [][\A r \in Req :
          (req'[r].op = "logout" /\ req'[r].again /\ req'[r] # req[r])
          => /\ refreshTokens' = refreshTokens
             /\ sessions' = sessions
             /\ (Free(r) /\ verifyToken(req'[r].body.token, JWT_SECRET, now) # NoToken)
                   => req'[r].pc = "deleteMany"
             /\ (~Free(r) /\ req'[r].pc = "done") => req'[r].status = 200]_vars

\* C16 witness: the second of two such logouts has answered 200
C16_Witness ==
    \E r \in Req : Done(r, "logout") /\ req[r].again /\ req[r].status = 200

\* C17: a /refresh that presents a token whose stored row has expiresAt
\* earlier than the current time answers 401 and, once it has answered, the
\* row is gone from the store.
C17_ExpiredRowRemovedOnUse ==
    \A r \in Req :
        (Done(r, "refresh") /\ req[r].expiredAtStart)
        => /\ req[r].status = 401
           /\ RowsByToken(req[r].body.token) = {}

\* C18: a /logout with no Authorization header, with a header without the
\* 'Bearer ' prefix, or with a token that fails verification answers 401 at
\* once and changes neither the RefreshToken table nor the session cache.
C18_LogoutRejectsBadBearer ==
    [][\A r \in Req :
          ( /\ Free(r)
            /\ req'[r] # req[r]
            /\ req'[r].op = "logout"
            /\ \/ req'[r].body.scheme # "Bearer"
               \/ verifyToken(req'[r].body.token, JWT_SECRET, now) = NoToken )
          => /\ req'[r].pc = "done"
             /\ req'[r].status = 401
             /\ refreshTokens' = refreshTokens
             /\ sessions' = sessions]_vars

\* C18 witness: a valid token sent without the prefix, by a user who holds a
\* refresh token and a session, was answered 401
C18_Witness ==
    \E r \in Req :
        /\ Done(r, "logout") /\ req[r].status = 401
        /\ req[r].body.scheme = "none"
        /\ verifyToken(req[r].body.token, JWT_SECRET, now) # NoToken
        /\ RowsOfUser(req[r].body.token.userId) # {}
        /\ sessions[req[r].body.token.userId] # NoSession

\* the user a request is about: by email for register and login, by the
\* userId claim of the presented token for refresh and logout
SubjectId(rec) ==
    IF rec.op \in {"register", "login"}
    THEN (CHOOSE u \in users : u.email = rec.body.email).id
    ELSE rec.body.token.userId

Answers2xx(r) ==
    req[r].pc # "done" /\ req'[r].pc = "done" /\ req'[r].status \in {200, 201}

\* C19: the step in which a register, login or refresh answers 2xx writes the
\* session entry of its user with the user's email and role and a lifetime
\* of 7 days from now; the step in which a logout answers 200 removes the
\* entry; no other step changes the session cache.
C19_SessionLifecycle ==
    [][/\ \A r \in Req :
             Answers2xx(r) =>
                LET uid == SubjectId(req[r]) IN
                IF req[r].op = "logout"
                THEN sessions' = [sessions EXCEPT ![uid] = NoSession]
                ELSE sessions' = [sessions EXCEPT ![uid] =
                        [email |-> UserById(uid).email, role |-> UserById(uid).role,
                         at |-> now, expiresAt |-> now + 7 * MS_PER_DAY]]
       /\ sessions' # sessions => \E r \in Req : Answers2xx(r)]_vars

\* C19 witness: a refresh that answered 200 overwrote an older session entry
C19_Witness ==
    \E r \in Req :
        /\ Done(r, "refresh") /\ req[r].status = 200
        /\ now > 0
        /\ sessions[req[r].body.token.userId].at = now

-----------------------------------------------------------------------------
(* api-gateway.  A path is the sequence of the fragments it is written     *)
(* with ('/course/health' = <<"/course", "/health">>, '/healthz' =         *)
(* <<"/health", "z">>); String.startsWith is prefix on fragments.          *)

StartsWith(path, prefix) ==
    /\ Len(prefix) <= Len(path)
    /\ SubSeq(path, 1, Len(prefix)) = prefix

\* middleware/auth.ts: PUBLIC_ROUTES
PUBLIC_ROUTES == {<<"/auth", "/login">>, <<"/auth", "/register">>, <<"/health">>}

\* index.ts: app.use('/course', ...) etc. -> target service
ProtectedMounts == {"/course", "/payment", "/media", "/notification"}
MountTarget(m) ==
    CASE m = "/auth" -> "auth-service"
      [] m = "/course" -> "course-service"
      [] m = "/payment" -> "payment-service"
      [] m = "/media" -> "media-service"
      [] m = "/notification" -> "notification-service"

\* express mounts on whole path segments: '/course' and '/course/...'
SegmentStart(f) == f \in {"/auth", "/login", "/register", "/refresh", "/logout", "/health",
                          "/course", "/payment", "/media", "/notification", "/api",
                          "/courses", "/upload"}
Mounted(path, m) ==
    /\ Len(path) >= 1 /\ path[1] = m
    /\ (Len(path) >= 2 => SegmentStart(path[2]))

\* req.path inside a mounted middleware, and pathRewrite {'^/course': ''}
StripMount(path) == SubSeq(path, 2, Len(path))

\* the user id as the header string
IdStr(n) == CASE n = 1 -> "1" [] n = 2 -> "2" [] OTHER -> "0"

\* middleware/trace.ts: req.headers['x-trace-id'] || randomUUID()
GENERATED_TRACE == "uuid"
traceMiddleware(request) ==
    IF request.xTraceId # NoHeader THEN request.xTraceId ELSE GENERATED_TRACE

\* req.headers.authorization?.replace('Bearer ', '')
BearerToken(request) == IF request.scheme = "absent" THEN NoToken ELSE request.token

\* middleware/auth.ts: try { jwt.verify(token, JWT_SECRET) } catch - no
\* algorithms option; NoToken when it throws
authVerify(token, t) ==
    LET decoded == jwtVerify(token, JWT_SECRET, HS_SUPPORTED_ALGS, t) IN
    IF decoded = Thrown THEN NoToken ELSE decoded

\* middleware/auth.ts authMiddleware on the mount-relative path: the outcome
\* is "public" (next() without a user), "missing" / "invalid" (401) or
\* "verified" (req.user = decoded)
authMiddleware(request, relPath) ==
    IF \E route \in PUBLIC_ROUTES : StartsWith(relPath, route) THEN "public"
    ELSE IF request.scheme = "absent" THEN "missing"
    ELSE IF authVerify(BearerToken(request), now) = NoToken THEN "invalid"
    ELSE "verified"

\* createProxyMiddleware: the inbound headers are forwarded as they are;
\* onProxyReq overwrites x-user-id / x-user-role when req.user is set and
\* x-trace-id always
onProxyReq(request, target, user, traceId) ==
    [target |-> target,
     path |-> StripMount(request.path),
     xUserId |-> IF user # NoToken THEN IdStr(user.userId) ELSE request.xUserId,
     xUserRole |-> IF user # NoToken THEN user.role ELSE request.xUserRole,
     xTraceId |-> traceId]

\* the trace_id field of the response body: the 401 of authMiddleware has
\* req.trace_id, a proxied service answers with the x-trace-id header it was
\* sent, the other bodies of the gateway have no such field
BodyTraceId(request, status, fwd) ==
    IF status = 401 THEN traceMiddleware(request)
    ELSE IF fwd # NoFwd THEN fwd.xTraceId
    ELSE NoHeader

\* traceId is the x-trace-id response header set by traceMiddleware
GwOutcome(request, trail, status, message, user, fwd) ==
    [request |-> request, trail |-> trail, status |-> status, message |-> message,
     user |-> user, traceId |-> traceMiddleware(request),
     bodyTraceId |-> BodyTraceId(request, status, fwd), fwd |-> fwd]

\* index.ts: rateLimit({max, message}) answers 429 with the message object
limiter(request) ==
    GwOutcome(request, <<"UNAUTHENTICATED", "LIMITED">>, 429, "Too many requests",
              NoToken, NoFwd)

\* index.ts: the middleware chain of one request (status 0: the downstream
\* service answers)
gateway(request) ==
    LET traceId == traceMiddleware(request)
        path == request.path IN
    IF request.method = "GET" /\ path = <<"/health">>
    THEN GwOutcome(request, <<"UNAUTHENTICATED", "LOCAL">>, 200,
                   "API Gateway is healthy", NoToken, NoFwd)
    ELSE IF Mounted(path, "/auth")
    THEN GwOutcome(request, <<"UNAUTHENTICATED", "PASSTHROUGH", "PROXIED">>, 0, "",
                   NoToken, onProxyReq(request, MountTarget("/auth"), NoToken, traceId))
    ELSE IF \E m \in ProtectedMounts : Mounted(path, m)
    THEN LET m == path[1]
             auth == authMiddleware(request, StripMount(path))
             user == authVerify(BearerToken(request), now) IN
         CASE auth = "public" ->
                GwOutcome(request, <<"UNAUTHENTICATED", "PASSTHROUGH", "PROXIED">>, 0, "",
                          NoToken, onProxyReq(request, MountTarget(m), NoToken, traceId))
           [] auth = "missing" ->
                GwOutcome(request, <<"UNAUTHENTICATED", "REJECTED">>, 401,
                          "Unauthorized - Missing token", NoToken, NoFwd)
           [] auth = "invalid" ->
                GwOutcome(request, <<"UNAUTHENTICATED", "TOKEN_PRESENT", "REJECTED">>, 401,
                          "Unauthorized - Invalid token", NoToken, NoFwd)
           [] auth = "verified" ->
                GwOutcome(request, <<"UNAUTHENTICATED", "TOKEN_PRESENT", "VERIFIED",
                                     "HEADER_INJECTED", "PROXIED">>, 0, "",
                          user, onProxyReq(request, MountTarget(m), user, traceId))
    ELSE GwOutcome(request, <<"UNAUTHENTICATED", "NOT_FOUND">>, 404, "", NoToken, NoFwd)

\* inputs of the gateway
GwUser == [userId |-> 1, email |-> "a@x.io", role |-> "INSTRUCTOR"]
GwTokens ==
    {generateAccessToken(GwUser, JWT_SECRET, 0),
     generateRefreshToken(GwUser, JWT_SECRET, 0),
     generateAccessToken(GwUser, JWT_SECRET, 0 - ACCESS_EXPIRY_SECONDS * MS_PER_SECOND),
     ForgedToken}
GwPaths ==
    {<<"/health">>, <<"/health", "z">>, <<"/unknown">>,
     <<"/auth", "/login">>, <<"/auth", "/register">>, <<"/auth", "/refresh">>,
     <<"/auth", "/logout">>,
     <<"/course", "/api", "/courses">>, <<"/course", "/health">>,
     <<"/course", "/health", "z">>, <<"/course", "/auth", "/login">>,
     <<"/media", "/api", "/upload">>, <<"/media", "/auth", "/register">>,
     <<"/payment", "/api">>, <<"/notification", "/api">>}
GwRequests ==
    {[method |-> me, path |-> pa, scheme |-> au.scheme, token |-> au.token,
      xUserId |-> xu, xUserRole |-> xr, xTraceId |-> xt] :
        me \in {"GET", "POST"}, pa \in GwPaths,
        au \in {[scheme |-> "absent", token |-> NoToken]}
               \cup {[scheme |-> sc, token |-> t] : sc \in {"Bearer", "none"}, t \in GwTokens},
        xu \in {NoHeader, "2"}, xr \in {NoHeader, "ADMIN"}, xt \in {NoHeader, "t-1"}}

\* the gateway keeps no state between requests: gw is the one request in hand
gateway_request(request) ==
    /\ gw = NoGw
    /\ hits <= RATE_LIMIT_MAX_REQUESTS
    /\ hits' = hits + 1
    /\ gw' = IF hits' > RATE_LIMIT_MAX_REQUESTS THEN limiter(request) ELSE gateway(request)
    /\ UNCHANGED <<boot, call, redisUp, mediaVars, courseVars, revision, now, users, refreshTokens, sessions, nextUserId, nextTokenId,
                   req, issued, deletedTokens, loggedOut, budget, tickCount, ds>>

\* the response (its own, or the proxied one) has gone back to the client
gateway_respond ==
    /\ gw # NoGw
    /\ gw' = NoGw
    /\ UNCHANGED <<sideVars, revision, now, users, refreshTokens, sessions, nextUserId, nextTokenId,
                   req, issued, deletedTokens, loggedOut, budget, tickCount, ds>>

\* the limiter's window has passed: its store forgets the counts
limiter_resetAll ==
    /\ hits > 0
    /\ hits' = 0
    /\ UNCHANGED <<authVars, edgeVars, boot, call, redisUp, mediaVars, courseVars>>

NextGateway ==
    \/ \E request \in GwRequests : gateway_request(request)
    \/ gateway_respond
    \/ limiter_resetAll

\* no auth-service traffic: only the edge moves
InitEdge == InitState /\ budget = [ops |-> 0, overlap |-> 0]

SpecGateway == InitEdge /\ [][NextGateway]_vars

\* the documented public routes (README: Public Routes)
DocumentedPublic(request) ==
    \/ request.method = "POST" /\ request.path = <<"/auth", "/login">>
    \/ request.method = "POST" /\ request.path = <<"/auth", "/register">>
    \/ request.method = "GET" /\ request.path = <<"/health">>

Forwarded == gw.fwd # NoFwd

\* C7: a forwarded request carries x-user-id / x-user-role either as the
\* claims of the token the gateway verified for it, or not at all.
C7_NoClientIdentityForwarded ==
    Forwarded =>
        \/ gw.fwd.xUserId = NoHeader /\ gw.fwd.xUserRole = NoHeader
        \/ /\ gw.user # NoToken
           /\ gw.fwd.xUserId = IdStr(gw.user.userId)
           /\ gw.fwd.xUserRole = gw.user.role

Last(seq) == seq[Len(seq)]

\* C8: a request under a protected mount that is not a documented public
\* route ends REJECTED with 401 or PROXIED after VERIFIED and HEADER_INJECTED,
\* never PROXIED through PASSTHROUGH.
C8_ProtectedNeverPassthrough ==
    ( /\ gw.request # NoGwRequest
      /\ \E m \in ProtectedMounts : Mounted(gw.request.path, m)
      /\ ~DocumentedPublic(gw.request) )
    => \/ Last(gw.trail) = "REJECTED" /\ gw.status = 401 /\ ~Forwarded
       \/ gw.trail = <<"UNAUTHENTICATED", "TOKEN_PRESENT", "VERIFIED",
                       "HEADER_INJECTED", "PROXIED">>

\* C21: a request through the gateway has one trace id - the inbound
\* x-trace-id when the client sent one, a generated one otherwise - and that
\* value is the x-trace-id forwarded downstream, the x-trace-id response
\* header, and the trace_id of every error body of the request (the
\* gateway's 401 and 429, and what auth-service answers).
C21_OneTraceId ==
    gw.request # NoGwRequest =>
        /\ gw.traceId = (IF gw.request.xTraceId # NoHeader THEN gw.request.xTraceId
                         ELSE GENERATED_TRACE)
        /\ Forwarded => gw.fwd.xTraceId = gw.traceId
        /\ gw.status \in {401, 429} => gw.bodyTraceId = gw.traceId
        /\ (Forwarded /\ gw.fwd.target = "auth-service") => gw.bodyTraceId = gw.traceId

-----------------------------------------------------------------------------
(* The token verifiers as functions: one call of verifyToken (auth-service) *)
(* or of the gateway's jwt.verify on a token string, a secret and a time.   *)

JwtClaims ==
    {[userId |-> 1, email |-> "a@x.io", role |-> "STUDENT"],
     [userId |-> 2, email |-> "b@x.io", role |-> "INSTRUCTOR"]}
JwtSecrets == {JWT_SECRET, "X"}
IssueTimes == {0, 2 * MS_PER_SECOND}
VerifyTimes ==
    {0, ACCESS_EXPIRY_SECONDS * MS_PER_SECOND, REFRESH_EXPIRY_SECONDS * MS_PER_SECOND,
     (REFRESH_EXPIRY_SECONDS + 2) * MS_PER_SECOND}

\* the strings generateAccessToken / generateRefreshToken return
Generated(c, secret) ==
    UNION {{generateAccessToken(c, secret, t0), generateRefreshToken(c, secret, t0)} :
              t0 \in IssueTimes}

\* the same header and payload signed with the secret under another HMAC
OtherHmac(tok) == {[tok EXCEPT !.alg = a] : a \in {"HS384", "HS512"}}
\* header alg 'none', no signature
Unsigned(tok) == [tok EXCEPT !.alg = "none", !.secret = ""]
\* a payload byte changed, the signature kept
Altered(tok) == [tok EXCEPT !.role = "ADMIN", !.secret = ""]
\* not three base64url segments
Malformed == [NoToken EXCEPT !.alg = "<malformed>"]

TokenStringsTried ==
    LET made == UNION {Generated(c, s) : c \in JwtClaims, s \in JwtSecrets} IN
    made \cup UNION {OtherHmac(tok) : tok \in made}
         \cup {Unsigned(tok) : tok \in made}
         \cup {Altered(tok) : tok \in made}
         \cup {Malformed, NoToken}

\* lib/jwt.ts verifyToken(token, secret)
verifyToken_call ==
    /\ call.by = ""
    /\ call' = [call EXCEPT !.by = "auth-service",
                            !.result = verifyToken(call.token, call.secret, call.at)]
    /\ UNCHANGED <<authVars, edgeVars, hits, boot, redisUp, mediaVars, courseVars>>

\* api-gateway middleware/auth.ts: jwt.verify(token, JWT_SECRET) in try/catch
authMiddleware_call ==
    /\ call.by = ""
    /\ call.secret = JWT_SECRET
    /\ call' = [call EXCEPT !.by = "api-gateway",
                            !.result = authVerify(call.token, call.at)]
    /\ UNCHANGED <<authVars, edgeVars, hits, boot, redisUp, mediaVars, courseVars>>

NextJwt ==
    \/ verifyToken_call
    \/ authMiddleware_call

InitJwt ==
    /\ InitStores
    /\ budget = [ops |-> 0, overlap |-> 0]
    /\ boot = Running
    /\ mediaOps = 0
    /\ CourseServiceIdle
    /\ call \in {[NoCall EXCEPT !.token = tok, !.secret = s, !.at = t] :
                     tok \in TokenStringsTried, s \in JwtSecrets, t \in VerifyTimes}

SpecJwt == InitJwt /\ [][NextJwt]_vars

\* C23: every token verification - verifyToken of auth-service and the
\* gateway's authMiddleware - rejects a token whose header names an algorithm
\* other than HS256 ('none' and the other HMAC variants included), even when
\* its signature is valid under the shared secret.
C23_AlgorithmPinned ==
    (call.by # "" /\ call.token.alg # "HS256") => call.result = NoToken

ClaimsOf(tok) == [userId |-> tok.userId, email |-> tok.email, role |-> tok.role]

\* C24: verifyToken(t, S) returns the claims C exactly when t was produced by
\* generateAccessToken or generateRefreshToken from C with secret S and has
\* not expired; for a token signed with another secret, an altered, expired
\* or malformed one it returns null, and it never throws.
C24_VerifyInvertsGenerate ==
    call.by = "auth-service" =>
        LET live == ClockSeconds(call.at) < call.token.exp IN
        /\ call.result # Thrown
        /\ \A c \in JwtClaims :
              (call.token \in Generated(c, call.secret) /\ live)
              => (call.result # NoToken /\ ClaimsOf(call.result) = c)
        /\ call.result # NoToken =>
              \E c \in JwtClaims : call.token \in Generated(c, call.secret) /\ live

\* C24 witness: a generated token came back as its claims
C24_Witness ==
    /\ call.by = "auth-service"
    /\ call.result # NoToken
    /\ ClaimsOf(call.result) \in JwtClaims

-----------------------------------------------------------------------------
(* Start-up of the two processes that hold the signing secret. *)

\* env-validator: jwtEnvSchema, z.string().min(32)
jwtEnvSchema(env) == env.JWT_SECRET # Unset /\ env.JWT_SECRET >= MIN_SECRET_LENGTH

\* env-validator: validateAuthServiceEnv = validateEnv(base, database, redis, jwt)
validateAuthServiceEnv(env) == env.DATABASE_URL /\ env.REDIS_URL /\ jwtEnvSchema(env)

\* api-gateway middleware/auth.ts: process.env.JWT_SECRET || 'fallback-secret-key'
\* (the empty string is falsy)
GatewaySecretLength(env) ==
    IF env.JWT_SECRET = Unset \/ env.JWT_SECRET = 0 THEN FALLBACK_SECRET_LENGTH
    ELSE env.JWT_SECRET

\* auth-service index.ts: const env = validateAuthServiceEnv() at module
\* load; a throw ends the process
auth_validateEnv ==
    /\ boot.auth = "starting"
    /\ boot' = [boot EXCEPT !.auth = IF validateAuthServiceEnv(boot.env) THEN "validated"
                                     ELSE "failed"]
    /\ UNCHANGED <<authVars, edgeVars, hits, call, redisUp, mediaVars, courseVars>>

\* auth-service index.ts startServer: initRedis, then app.listen;
\* process.exit(1) when Redis cannot be reached
auth_startServer ==
    /\ boot.auth = "validated"
    /\ boot' = [boot EXCEPT !.auth = IF redisUp THEN "serving" ELSE "failed"]
    /\ UNCHANGED <<authVars, edgeVars, hits, call, redisUp, mediaVars, courseVars>>

\* api-gateway index.ts: the middleware module is loaded, then app.listen,
\* with no validation before it
gateway_listen ==
    /\ boot.gateway = "starting"
    /\ boot' = [boot EXCEPT !.gateway = "serving",
                            !.gatewaySecret = GatewaySecretLength(boot.env)]
    /\ UNCHANGED <<authVars, edgeVars, hits, call, redisUp, mediaVars, courseVars>>

NextBoot ==
    \/ auth_validateEnv
    \/ auth_startServer
    \/ gateway_listen
    \/ redis_down
    \/ redis_up

InitBoot ==
    /\ InitStores
    /\ budget = [ops |-> 0, overlap |-> 0]
    /\ boot \in {[env |-> env, auth |-> "starting", gateway |-> "starting",
                   gatewaySecret |-> Unset] : env \in Environments}
    /\ call = NoCall
    /\ mediaOps = 0
    /\ CourseServiceIdle

SpecBoot == InitBoot /\ [][NextBoot]_vars

\* C22: neither auth-service nor the gateway serves requests while the
\* signing secret is unset or shorter than 32 characters.
C22_NoServingWithWeakSecret ==
    (boot.auth = "serving" \/ boot.gateway = "serving") =>
        /\ boot.env.JWT_SECRET # Unset
        /\ boot.env.JWT_SECRET >= MIN_SECRET_LENGTH
        /\ boot.gateway = "serving" => boot.gatewaySecret >= MIN_SECRET_LENGTH

\* a validly signed, unexpired token of the given kind
ValidOfKind(tok, kind, t) ==
    /\ tok # NoToken
    /\ verifyToken(tok, JWT_SECRET, t) # NoToken
    /\ KindOf(tok) = kind

\* C6: no operation accepts a validly signed, unexpired token of the wrong
\* kind: /logout answers 401 to a refresh token in its Authorization header,
\* /refresh answers 401 to an access token, and the gateway verifies no
\* refresh token as a bearer token.
C6_WrongKindRejected ==
    /\ \A r \in Req :
          ( /\ Done(r, "logout")
            /\ req[r].body.scheme = "Bearer"
            /\ ValidOfKind(req[r].body.token, "refresh", now) )
          => req[r].status = 401
    /\ \A r \in Req :
          (Done(r, "refresh") /\ ValidOfKind(req[r].body.token, "access", now))
          => req[r].status = 401
    /\ (gw.request # NoGwRequest /\ ValidOfKind(gw.request.token, "refresh", now))
          => "VERIFIED" \notin {gw.trail[i] : i \in 1..Len(gw.trail)}

\* C10: no User row created through /register has the administrator role.
C10_NoSelfRegisteredAdmin ==
    \A u \in users : u.role # "ADMIN"

-----------------------------------------------------------------------------
(* The session cache next to the stores: one user who registers, logs in,  *)
(* refreshes and logs out with the tokens handed out, requests overlapping, *)
(* and the gateway verifying those tokens on a protected route.            *)

CacheRegisterBodies ==
    {[NoBody EXCEPT !.email = "a@x.io", !.password = "Password123", !.name = "Alice",
                    !.role = NoRole]}
CacheLoginBodies == {[NoBody EXCEPT !.email = "a@x.io", !.password = "Password123"]}
CacheRefreshBodies == {[NoBody EXCEPT !.token = t] : t \in issued}
CacheLogoutBodies == {[NoBody EXCEPT !.scheme = "Bearer", !.token = t] : t \in issued}
CacheGwRequests ==
    {[NoGwRequest EXCEPT !.method = "GET", !.path = <<"/course", "/api", "/courses">>,
                         !.scheme = "Bearer", !.token = t] : t \in issued}

NextCache ==
    \/ \E r \in Req, body \in CacheRegisterBodies : register_findUser(r, body)
    \/ \E r \in Req : register_createUser(r)
    \/ \E r \in Req : register_createToken(r)
    \/ \E r \in Req : register_setSession(r)
    \/ \E r \in Req, body \in CacheLoginBodies : login_findUser(r, body)
    \/ \E r \in Req : login_createToken(r)
    \/ \E r \in Req : login_setSession(r)
    \/ \E r \in Req, body \in CacheRefreshBodies : refresh_verify(r, body)
    \/ \E r \in Req : refresh_findToken(r)
    \/ \E r \in Req : refresh_rotate(r)
    \/ \E r \in Req : refresh_deleteOld(r)
    \/ \E r \in Req : refresh_createNew(r)
    \/ \E r \in Req : refresh_setSession(r)
    \/ \E r \in Req, body \in CacheLogoutBodies : logout_verify(r, body)
    \/ \E r \in Req : logout_deleteMany(r)
    \/ \E r \in Req : logout_deleteSession(r)
    \/ \E request \in CacheGwRequests : gateway_request(request)
    \/ gateway_respond
    \/ limiter_resetAll

InitCache == InitState /\ budget = [ops |-> MaxCacheOps, overlap |-> MaxOverlap]

SpecCache == InitCache /\ [][NextCache]_vars

\* C20: what /refresh, /logout and the gateway answer does not depend on the
\* session entry: a /refresh running alone with a verifiable token answers
\* 401 exactly when the token has no unexpired row, and otherwise rotates it
\* (200; 500 only on a row conflict); a /logout with a verifiable bearer
\* token answers 200; the gateway, under its rate limit, verifies a
\* verifiable bearer token -
\* whether the session entry of the user exists or not.
C20_SessionCacheNotAuthoritative ==
    /\ \A r \in Req :
          ( /\ Done(r, "refresh") /\ req[r].alone
            /\ verifyToken(req[r].body.token, JWT_SECRET, now) # NoToken )
          => /\ req[r].storedAtStart => req[r].status \in {200, 500}
             /\ ~req[r].storedAtStart => req[r].status = 401
             /\ req[r].status = 200 =>
                   \E row \in RowsByToken(req[r].data.refreshToken) :
                       row.userId = req[r].body.token.userId
    /\ \A r \in Req :
          ( /\ Done(r, "logout") /\ req[r].body.scheme = "Bearer"
            /\ verifyToken(req[r].body.token, JWT_SECRET, now) # NoToken )
          => /\ req[r].status = 200
             /\ req[r].alone => RowsOfUser(req[r].body.token.userId) = {}
    /\ ( /\ gw.request # NoGwRequest /\ gw.request.scheme = "Bearer"
          /\ gw.status # 429
          /\ gw.request.path = <<"/course", "/api", "/courses">>
          /\ verifyToken(gw.request.token, JWT_SECRET, now) # NoToken )
          => /\ gw.user = gw.request.token
             /\ Last(gw.trail) = "PROXIED"

\* C20 witness: a /refresh answered 200 although the session entry of the
\* token's user did not exist when it began
C20_Witness ==
    \E r \in Req :
        /\ Done(r, "refresh") /\ req[r].alone
        /\ req[r].status = 200
        /\ ~req[r].sessionAtStart

\* C26: a /logout of user u and a /refresh presenting one of u's stored
\* tokens that ran concurrently: once both have answered, the Refresh Token
\* Store holds no row of u.  (Request r took a higher slot than q because q's
\* slot was busy, so the two overlapped; r is the one that answers last.)
C26_LogoutBeatsConcurrentRefresh ==
    [][\A q, r \in Req :
          ( /\ q < r
            /\ req'[q].pc = "done"
            /\ \/ Answers(r, "refresh") /\ req'[q].op = "logout"
               \/ Answers(r, "logout") /\ req'[q].op = "refresh"
            /\ LET lo == IF req'[q].op = "logout" THEN q ELSE r
                   re == IF req'[q].op = "logout" THEN r ELSE q IN
               /\ req'[lo].status = 200
               /\ req'[re].storedAtStart
               /\ req'[re].body.token.userId = req'[lo].body.token.userId )
          => \A row \in refreshTokens' : row.userId # req'[r].body.token.userId]_vars

-----------------------------------------------------------------------------
(* Failures of the session cache: one user whose requests are served one    *)
(* after the other while the Redis server may stop answering at any time.   *)

NextFault ==
    \/ \E r \in Req, body \in CacheRegisterBodies : register_findUser(r, body)
    \/ \E r \in Req : register_createUser(r)
    \/ \E r \in Req : register_createToken(r)
    \/ \E r \in Req : register_setSession(r)
    \/ \E r \in Req, body \in CacheLoginBodies : login_findUser(r, body)
    \/ \E r \in Req : login_createToken(r)
    \/ \E r \in Req : login_setSession(r)
    \/ \E r \in Req, body \in CacheRefreshBodies : refresh_verify(r, body)
    \/ \E r \in Req : refresh_findToken(r)
    \/ \E r \in Req : refresh_deleteExpired(r)
    \/ \E r \in Req : refresh_rotate(r)
    \/ \E r \in Req : refresh_deleteOld(r)
    \/ \E r \in Req : refresh_createNew(r)
    \/ \E r \in Req : refresh_setSession(r)
    \/ \E r \in Req, body \in CacheLogoutBodies : logout_verify(r, body)
    \/ \E r \in Req : logout_deleteMany(r)
    \/ \E r \in Req : logout_deleteSession(r)
    \/ \E d \in TickSteps : Tick(d)
    \/ redis_down
    \/ redis_up

InitFault == InitState /\ budget = [ops |-> MaxFaultOps, overlap |-> 0]

SpecFault == InitFault /\ [][NextFault]_vars

\* C25: when /refresh answers with anything other than 200, the row of the
\* presented token is still in the Refresh Token Store (unless the row had
\* expired and was deleted for that) - also when the session-cache write
\* after the rotation fails.
C25_FailedRefreshKeepsRow ==
    [][\A r \in Req :
          ( /\ Answers(r, "refresh")
            /\ req'[r].status # 200
            /\ req'[r].message # "Refresh token has expired"
            /\ req'[r].storedAtStart )
          => \E row \in refreshTokens' : row.token = req'[r].body.token]_vars

\* C27: when /register answers with a status other than 201, no User row,
\* refresh-token row or session entry created by the request remains: the
\* email it asked for, free when it began, is still free.
C27_FailedRegisterLeavesNothing ==
    [][\A r \in Req :
          ( /\ Answers(r, "register")
            /\ req'[r].status # 201
            /\ req'[r].freshAtStart )
          => /\ \A u \in users' : u.email # req'[r].body.email
             /\ \A row \in refreshTokens' : row.userId \in {u.id : u \in users'}]_vars

-----------------------------------------------------------------------------
(* course-service and media-service: the route tables and the guards of    *)
(* middleware/require-auth.ts.  A path is its sequence of segments.        *)

Params == {":slug", ":id", ":courseId", ":chapterId", ":lessonId", ":storageKey"}

Route(method, pattern, guard, handler, db) ==
    [method |-> method, pattern |-> pattern, guard |-> guard, handler |-> handler, db |-> db]

\* requireRole('instructor', 'admin')
REQUIRED_ROLES == {"instructor", "admin"}

\* course-service index.ts with the guards, in registration order
CourseRoutesGuarded ==
    << Route("GET", <<"health">>, "none", "health", FALSE),
       Route("GET", <<"api", "courses">>, "none", "listCourses", TRUE),
       Route("GET", <<"api", "courses", ":slug">>, "none", "getCourseBySlug", TRUE),
       Route("GET", <<"api", "instructor", "courses">>, "requireAuth", "getInstructorCourses", TRUE),
       Route("POST", <<"api", "courses">>, "requireRole", "createCourse", TRUE),
       Route("PUT", <<"api", "courses", ":id">>, "requireRole", "updateCourse", TRUE),
       Route("DELETE", <<"api", "courses", ":id">>, "requireRole", "deleteCourse", TRUE),
       Route("POST", <<"api", "courses", ":courseId", "chapters">>, "requireRole", "createChapter", TRUE),
       Route("PUT", <<"api", "courses", ":courseId", "chapters", ":chapterId">>, "requireRole", "updateChapter", TRUE),
       Route("DELETE", <<"api", "courses", ":courseId", "chapters", ":chapterId">>, "requireRole", "deleteChapter", TRUE),
       Route("PUT", <<"api", "courses", ":courseId", "chapters", "reorder">>, "requireRole", "reorderChapters", TRUE),
       Route("POST", <<"api", "courses", ":courseId", "chapters", ":chapterId", "lessons">>, "requireRole", "createLesson", TRUE),
       Route("PUT", <<"api", "courses", ":courseId", "chapters", ":chapterId", "lessons", ":lessonId">>, "requireRole", "updateLesson", TRUE),
       Route("DELETE", <<"api", "courses", ":courseId", "chapters", ":chapterId", "lessons", ":lessonId">>, "requireRole", "deleteLesson", TRUE) >>

\* the earlier course-service index.ts: the same routes, no guard on any
CourseRoutesUnguarded ==
    [i \in 1..Len(CourseRoutesGuarded) |-> [CourseRoutesGuarded[i] EXCEPT !.guard = "none"]]

CourseRoutes == IF revision = 2 THEN CourseRoutesGuarded ELSE CourseRoutesUnguarded

\* media-service index.ts, in registration order (STORAGE_PROVIDER = local)
MediaRoutes ==
    << Route("GET", <<"health">>, "none", "health", FALSE),
       Route("POST", <<"api", "upload", "presigned">>, "requireRole", "requestPresignedUpload", TRUE),
       Route("POST", <<"api", "upload", "complete">>, "requireRole", "confirmUpload", TRUE),
       Route("PUT", <<"api", "upload", "local", ":storageKey">>, "requireAuth", "localUpload", TRUE),
       Route("GET", <<"api", "media", ":id">>, "none", "getMediaAsset", TRUE),
       Route("GET", <<"api", "media", "lesson", ":lessonId">>, "none", "getMediaByLesson", TRUE),
       Route("GET", <<"api", "media", "course", ":courseId">>, "requireAuth", "getMediaByCourse", TRUE),
       Route("DELETE", <<"api", "media", ":id">>, "requireRole", "deleteMediaAsset", TRUE),
       Route("GET", <<"api", "media", "file", ":storageKey">>, "none", "serveLocalFile", FALSE) >>

Routes(service) == IF service = "course-service" THEN CourseRoutes ELSE MediaRoutes

\* express route matching: same method, same length, literal segments equal
Matches(route, request) ==
    /\ route.method = request.method
    /\ Len(route.pattern) = Len(request.path)
    /\ \A i \in 1..Len(route.pattern) :
          route.pattern[i] \in Params \/ route.pattern[i] = request.path[i]

\* index of the first matching route, 0 when none matches
FirstMatch(service, request) ==
    LET table == Routes(service)
        found == {i \in 1..Len(table) : Matches(table[i], request)} IN
    IF found = {} THEN 0 ELSE CHOOSE i \in found : \A j \in found : i <= j

\* requireAuth: without x-user-id answer 401 and stop, otherwise fill
\* res.locals and call next()
requireAuth(request) ==
    IF request.xUserId = NoHeader
    THEN [next |-> FALSE, status |-> 401, userId |-> NoHeader, userRole |-> NoHeader]
    ELSE [next |-> TRUE, status |-> 0, userId |-> request.xUserId,
          userRole |-> request.xUserRole]

\* requireRole(...roles) = [requireAuth, role check]
requireRole(request, roles) ==
    LET auth == requireAuth(request) IN
    IF ~auth.next THEN auth
    ELSE IF auth.userRole \notin roles
    THEN [auth EXCEPT !.next = FALSE, !.status = 403]
    ELSE auth

DsOutcome(request, route, status, answeredBy, userId, userRole, db) ==
    [request |-> request, route |-> route, status |-> status, answeredBy |-> answeredBy,
     userId |-> userId, userRole |-> userRole, dbAccess |-> db]

\* handlers of course.controller.ts that call getInstructorId
CourseHandlers == {"getInstructorCourses", "createCourse", "updateCourse", "deleteCourse"}

\* handlers that start with verifyCourseOwnership / verifyChapterOwnership
OwnershipHandlers ==
    {"createChapter", "updateChapter", "deleteChapter", "reorderChapters",
     "createLesson", "updateLesson", "deleteLesson"}

\* getInstructorId: throws without x-user-id, the handler's catch answers 500
getInstructorId(request) ==
    IF request.xUserId = NoHeader THEN [threw |-> TRUE, userId |-> NoHeader]
    ELSE [threw |-> FALSE, userId |-> request.xUserId]

\* verifyCourseOwnership: reads the course first; owner is the instructorId
\* of the row found, NoHeader when there is no such course.  0: go on.
verifyCourseOwnership(owner, instructorId) ==
    IF owner = NoHeader THEN 404
    ELSE IF owner # instructorId THEN 403
    ELSE 0

\* a handler reached with no guard in front of it (status 0: it goes on to
\* its work and answers)
unguardedHandler(request, route, owner) ==
    IF route.handler \in CourseHandlers
    THEN IF getInstructorId(request).threw
         THEN DsOutcome(request, route.handler, 500, "handler", NoHeader, NoHeader, FALSE)
         ELSE DsOutcome(request, route.handler, 0, "handler", request.xUserId, NoHeader, route.db)
    ELSE IF route.handler \in OwnershipHandlers
    THEN DsOutcome(request, route.handler,
                   verifyCourseOwnership(owner, IF request.xUserId = NoHeader THEN "undefined" ELSE request.xUserId),
                   "handler", request.xUserId, NoHeader, TRUE)
    ELSE DsOutcome(request, route.handler, 0, "handler", NoHeader, NoHeader, route.db)

\* one request through the middleware chain of a service (status 0: the
\* handler ran and answers); owner is what the course table holds
serve(request, owner) ==
    LET idx == FirstMatch(request.service, request) IN
    IF idx = 0
    THEN DsOutcome(request, "", 404, "notFound", NoHeader, NoHeader, FALSE)
    ELSE LET route == Routes(request.service)[idx]
             guard == CASE route.guard = "requireAuth" -> requireAuth(request)
                        [] route.guard = "requireRole" -> requireRole(request, REQUIRED_ROLES)
                        [] OTHER -> [next |-> TRUE, status |-> 0, userId |-> NoHeader,
                                     userRole |-> NoHeader] IN
         IF route.guard = "none"
         THEN unguardedHandler(request, route, owner)
         ELSE IF ~guard.next
         THEN DsOutcome(request, route.handler, guard.status, route.guard,
                        guard.userId, guard.userRole, FALSE)
         ELSE DsOutcome(request, route.handler, 0, "handler",
                        guard.userId, guard.userRole, route.db)

\* inputs of the services: every route with its parameters filled in, and
\* some paths no route has
Fill(seg) ==
    CASE seg = ":slug" -> "intro-to-tla"
      [] seg = ":id" -> "id-1"
      [] seg = ":courseId" -> "c-1"
      [] seg = ":chapterId" -> "ch-1"
      [] seg = ":lessonId" -> "l-1"
      [] seg = ":storageKey" -> "k-1"
      [] OTHER -> seg
FillPath(pattern) == [i \in 1..Len(pattern) |-> Fill(pattern[i])]
Services == {"course-service", "media-service"}
DsPaths(service) ==
    LET table == IF service = "course-service" THEN CourseRoutesGuarded ELSE MediaRoutes IN
    {FillPath(table[i].pattern) : i \in 1..Len(table)}
    \cup {<<"api">>, <<"auth", "login">>}
DsRequests ==
    {[service |-> sv, method |-> me, path |-> pa, xUserId |-> xu, xUserRole |-> xr,
      bearer |-> be] :
        sv \in Services, me \in {"GET", "POST", "PUT", "DELETE"},
        pa \in DsPaths("course-service") \cup DsPaths("media-service"),
        xu \in {NoHeader, "1"}, xr \in {NoHeader, "instructor", "INSTRUCTOR"},
        be \in {NoToken, generateAccessToken(GwUser, JWT_SECRET, 0)}}

\* the services keep no state between requests: ds is the one request in hand
CourseOwners == {NoHeader, "1", "2"}

service_request(request, owner) ==
    /\ ds = NoDs
    /\ ds' = serve(request, owner)
    /\ UNCHANGED <<sideVars, revision, now, users, refreshTokens, sessions, nextUserId, nextTokenId,
                   req, issued, deletedTokens, loggedOut, budget, tickCount, gw>>

service_respond ==
    /\ ds # NoDs
    /\ ds' = NoDs
    /\ UNCHANGED <<sideVars, revision, now, users, refreshTokens, sessions, nextUserId, nextTokenId,
                   req, issued, deletedTokens, loggedOut, budget, tickCount, gw>>

NextDownstream ==
    \/ \E request \in DsRequests, owner \in CourseOwners : service_request(request, owner)
    \/ service_respond

SpecDownstream == InitEdge /\ [][NextDownstream]_vars

\* the routes that need an identity
IdentityHandlers ==
    {"getInstructorCourses", "createCourse", "updateCourse", "deleteCourse",
     "createChapter", "updateChapter", "deleteChapter", "reorderChapters",
     "createLesson", "updateLesson", "deleteLesson",
     "requestPresignedUpload", "confirmUpload", "localUpload",
     "getMediaByCourse", "deleteMediaAsset"}

\* C9: a request to a route that needs an identity and carries no x-user-id
\* is answered 401 by the guard, the handler does not run and the database
\* is not touched, whether or not a valid bearer token came with it.
C9_MissingHeaderIs401 ==
    (ds.route \in IdentityHandlers /\ ds.request.xUserId = NoHeader)
    => /\ ds.status = 401
       /\ ds.answeredBy # "handler"
       /\ ~ds.dbAccess

-----------------------------------------------------------------------------
(* End to end: a user registers, the gateway verifies the access token it   *)
(* was given and proxies the request, the service's guards see the headers  *)
(* the gateway injected.                                                    *)

\* a path fragment of the gateway as a path segment of the service
Segment(f) ==
    CASE f = "/api" -> "api"
      [] f = "/courses" -> "courses"
      [] f = "/upload" -> "upload"
      [] f = "/presigned" -> "presigned"
      [] f = "/health" -> "health"
      [] OTHER -> f
Segments(path) == [i \in 1..Len(path) |-> Segment(path[i])]

\* http-proxy-middleware: the request as the target service receives it
Proxied(outcome) ==
    [service |-> outcome.fwd.target, method |-> outcome.request.method,
     path |-> Segments(outcome.fwd.path), xUserId |-> outcome.fwd.xUserId,
     xUserRole |-> outcome.fwd.xUserRole, bearer |-> BearerToken(outcome.request)]

\* the proxied request is served by course-service or media-service
proxy_forward(owner) ==
    /\ gw.fwd # NoFwd
    /\ gw.fwd.target \in Services
    /\ ds = NoDs
    /\ ds' = serve(Proxied(gw), owner)
    /\ UNCHANGED <<sideVars, revision, now, users, refreshTokens, sessions, nextUserId,
                   nextTokenId, req, issued, deletedTokens, loggedOut, budget, tickCount, gw>>

RoleRegisterBodies ==
    {[NoBody EXCEPT !.email = "a@x.io", !.password = "Password123", !.name = "Alice",
                    !.role = ro] : ro \in RequestedRoles}
RoleGwRequests ==
    {[NoGwRequest EXCEPT !.method = me, !.path = pa, !.scheme = "Bearer", !.token = t] :
        me \in {"GET", "POST"},
        pa \in {<<"/course", "/api", "/courses">>,
                <<"/media", "/api", "/upload", "/presigned">>},
        t \in issued}

NextRoles ==
    \/ \E r \in Req, body \in RoleRegisterBodies : register_findUser(r, body)
    \/ \E r \in Req : register_createUser(r)
    \/ \E r \in Req : register_createToken(r)
    \/ \E r \in Req : register_setSession(r)
    \/ \E request \in RoleGwRequests : gateway_request(request)
    \/ \E owner \in CourseOwners : proxy_forward(owner)
    \/ service_respond
    \/ gateway_respond
    \/ limiter_resetAll

InitRoles == InitState /\ budget = [ops |-> MaxRoleOps, overlap |-> 0]

SpecRoles == InitRoles /\ [][NextRoles]_vars

\* handlers behind requireRole('instructor', 'admin')
RoleHandlers ==
    {CourseRoutesGuarded[i].handler : i \in {j \in 1..Len(CourseRoutesGuarded) :
                                               CourseRoutesGuarded[j].guard = "requireRole"}}
    \cup {MediaRoutes[i].handler : i \in {j \in 1..Len(MediaRoutes) :
                                              MediaRoutes[j].guard = "requireRole"}}

\* C28: for a user registered as INSTRUCTOR (or holding ADMIN), the
\* x-user-role the gateway injects from the verified access token is accepted
\* by requireRole('instructor', 'admin'): the proxied request reaches the
\* handler and is not answered 403.
C28_RoleVocabularyConsistent ==
    ( /\ ds.request # NoDsRequest
      /\ gw.user # NoToken
      /\ gw.user.role \in {"INSTRUCTOR", "ADMIN"}
      /\ \E u \in users : u.id = gw.user.userId /\ u.role = gw.user.role
      /\ ds.route \in RoleHandlers )
    => /\ ds.status # 403
       /\ ds.answeredBy = "handler"

-----------------------------------------------------------------------------
(* media-service upload.controller.ts: the MediaAsset rows and the          *)
(* handlers that create and confirm them, cut at their awaits.              *)

Uploaders == {"1", "2"}
\* mediaId 0: a body that fails confirmUploadSchema
ConfirmIds == AssetIds \cup {0}

MediaFree(m) == mreq[m].pc \in {"idle", "done"}
MediaStart(m) == MediaFree(m) /\ mediaOps > 0
MediaReply(rec, status) == [rec EXCEPT !.pc = "done", !.status = status]

\* POST /api/upload/presigned: validate, generateUploadUrl, create the row
\* with status PENDING (valid: the body passes the schema and the MIME check)
requestPresignedUpload(m, uploader, valid) ==
    /\ MediaStart(m)
    /\ mediaOps' = mediaOps - 1
    /\ LET rec == [MediaIdle EXCEPT !.op = "presign", !.uploaderId = uploader]
           free == {id \in AssetIds : assets[id] = NoAsset} IN
       IF valid /\ free # {}
       THEN LET id == CHOOSE i \in free : \A j \in free : i <= j IN
            /\ assets' = [assets EXCEPT ![id] =
                   [status |-> "PENDING", uploaderId |-> uploader,
                    presignedExp |-> now + PRESIGNED_EXPIRY_SECONDS * MS_PER_SECOND,
                    url |-> ""]]
            /\ mreq' = [mreq EXCEPT ![m] = MediaReply([rec EXCEPT !.mediaId = id], 201)]
       ELSE /\ ~valid
            /\ mreq' = [mreq EXCEPT ![m] = MediaReply(rec, 400)]
            /\ UNCHANGED assets
    /\ UNCHANGED <<authVars, edgeVars, hits, boot, call, redisUp, courseVars, files>>

\* PUT /api/upload/local/:storageKey: the file is moved to its storage path
localUpload(key) ==
    /\ assets[key] # NoAsset
    /\ key \notin files
    /\ files' = files \cup {key}
    /\ UNCHANGED <<authVars, edgeVars, hits, boot, call, redisUp, courseVars, assets, mreq, mediaOps>>

\* POST /api/upload/complete: parse, findUnique, then the checks on the row
\* that was read
confirm_find(m, mediaId, uploader) ==
    /\ MediaStart(m)
    /\ mediaOps' = mediaOps - 1
    /\ LET rec == [MediaIdle EXCEPT !.op = "confirm", !.mediaId = mediaId,
                                    !.uploaderId = uploader,
                                    !.statusAtStart = IF mediaId \in AssetIds
                                                      THEN assets[mediaId].status ELSE ""] IN
       mreq' = [mreq EXCEPT ![m] =
          IF mediaId \notin AssetIds THEN MediaReply(rec, 400)
          ELSE IF assets[mediaId] = NoAsset THEN MediaReply(rec, 404)
          ELSE IF assets[mediaId].uploaderId # uploader THEN MediaReply(rec, 403)
          ELSE IF assets[mediaId].status # "PENDING" THEN MediaReply(rec, 409)
          ELSE IF assets[mediaId].presignedExp < now THEN [rec EXCEPT !.pc = "markFailed"]
          ELSE [rec EXCEPT !.pc = "fileExists"]]
    /\ UNCHANGED <<authVars, edgeVars, hits, boot, call, redisUp, courseVars, assets, files>>

\* the presigned URL has expired: update({status: 'FAILED'}), 410
confirm_markFailed(m) ==
    /\ mreq[m].pc = "markFailed"
    /\ assets' = [assets EXCEPT ![mreq[m].mediaId].status = "FAILED"]
    /\ mreq' = [mreq EXCEPT ![m] = MediaReply(@, 410)]
    /\ UNCHANGED <<authVars, edgeVars, hits, boot, call, redisUp, courseVars, files, mediaOps>>

\* storage.fileExists (STORAGE_PROVIDER = local: the file must be there)
confirm_fileExists(m) ==
    /\ mreq[m].pc = "fileExists"
    /\ mreq' = [mreq EXCEPT ![m] =
          IF mreq[m].mediaId \notin files THEN MediaReply(@, 400)
          ELSE [@ EXCEPT !.pc = "update"]]
    /\ UNCHANGED <<authVars, edgeVars, hits, boot, call, redisUp, courseVars, assets, files, mediaOps>>

\* getFileUrl, then update({status: 'UPLOADED', url, presignedUrl: null,
\* presignedExp: null}) where {id}, 200
confirm_update(m) ==
    /\ mreq[m].pc = "update"
    /\ assets' = [assets EXCEPT ![mreq[m].mediaId] =
           [@ EXCEPT !.status = "UPLOADED", !.url = "file-url", !.presignedExp = 0]]
    /\ mreq' = [mreq EXCEPT ![m] = MediaReply(@, 200)]
    /\ UNCHANGED <<authVars, edgeVars, hits, boot, call, redisUp, courseVars, files, mediaOps>>

NextMedia ==
    \/ \E m \in MediaReq, u \in Uploaders, valid \in BOOLEAN :
          requestPresignedUpload(m, u, valid)
    \/ \E key \in AssetIds : localUpload(key)
    \/ \E m \in MediaReq, id \in ConfirmIds, u \in Uploaders : confirm_find(m, id, u)
    \/ \E m \in MediaReq : confirm_markFailed(m)
    \/ \E m \in MediaReq : confirm_fileExists(m)
    \/ \E m \in MediaReq : confirm_update(m)
    \/ \E d \in TickSteps : Tick(d)

InitMedia ==
    /\ InitStores
    /\ budget = [ops |-> 0, overlap |-> 0]
    /\ boot = Running
    /\ call = NoCall
    /\ mediaOps = MaxMediaOps
    /\ CourseServiceIdle

SpecMedia == InitMedia /\ [][NextMedia]_vars

\* the step with which media request m answers a confirmUpload
ConfirmAnswers(m) ==
    mreq[m].pc # "done" /\ mreq'[m].pc = "done" /\ mreq'[m].op = "confirm"

\* C29: a media asset's status only moves PENDING -> UPLOADED or PENDING ->
\* FAILED and never changes afterwards; confirmUpload on an asset that is not
\* PENDING answers 409 and leaves it unchanged; of the confirmUpload requests
\* for one asset at most one answers 200.
C29_MediaStatusMonotone ==
    [][/\ \A id \in AssetIds :
             assets'[id].status # assets[id].status
             => \/ assets[id] = NoAsset /\ assets'[id].status = "PENDING"
                \/ /\ assets[id].status = "PENDING"
                   /\ assets'[id].status \in {"UPLOADED", "FAILED"}
       /\ \A m \in MediaReq :
             ( /\ ConfirmAnswers(m)
               /\ mreq'[m].mediaId \in AssetIds
               /\ mreq'[m].statusAtStart \in {"UPLOADED", "FAILED"}
               /\ assets[mreq'[m].mediaId].uploaderId = mreq'[m].uploaderId )
             => mreq'[m].status = 409 /\ assets' = assets
       /\ \A m1, m2 \in MediaReq :
             ( /\ m1 # m2
               /\ mreq'[m1].op = "confirm" /\ mreq'[m2].op = "confirm"
               /\ mreq'[m1].mediaId = mreq'[m2].mediaId )
             => ~(mreq'[m1].status = 200 /\ mreq'[m2].status = 200)]_vars

-----------------------------------------------------------------------------
(* course-service: lessons, chapters and the totalLessons counter of a     *)
(* course (lesson controller, chapter.controller.ts, course.controller.ts). *)
(* Each handler is cut at its awaits.  A lesson's order, title and duration *)
(* do not reach totalLessons and are left out.                             *)

\* who sends a request: x-user-id and x-user-role as the gateway injects them
Requesters == {[id |-> "1", role |-> "instructor"], [id |-> "2", role |-> "instructor"],
               [id |-> "2", role |-> "admin"]}

CourseFree(k) == creq[k].pc \in {"idle", "done"}
CourseStart(k) == CourseFree(k) /\ courseOps > 0
CourseReply(rec, status) == [rec EXCEPT !.pc = "done", !.status = status]

\* the lesson controller's catch block: the first version answers 500 to
\* everything, the second maps Prisma's codes with handlePrismaError
handlePrismaError(code) ==
    IF revision = 1 THEN 500
    ELSE CASE code = "P2002" -> 409
           [] code = "P2025" -> 404
           [] code = "P2003" -> 400
           [] OTHER -> 500

\* lesson rows a createLesson in flight has still to insert
PendingCreates ==
    Cardinality({k \in CourseReq : /\ creq[k].op = "createLesson"
                                   /\ creq[k].pc \in {"findChapter", "findFirst", "create"}})

\* verifyChapterOwnership, first query: course.findUnique and the owner test
\* (the second version lets the role 'admin' through)
lesson_verifyCourse(k, op, c, ch, l, who, valid) ==
    /\ CourseStart(k)
    /\ op = "createLesson" => l = 0 /\ nextLessonId + PendingCreates <= MaxLessons
    /\ op = "deleteLesson" => l \in LessonIds /\ valid
    /\ courseOps' = courseOps - 1
    /\ LET rec == [CourseIdle EXCEPT !.op = op, !.courseId = c, !.chapterId = ch,
                                     !.lessonId = l, !.instructorId = who.id,
                                     !.valid = valid] IN
       creq' = [creq EXCEPT ![k] =
          IF courses[c] = NoCourse THEN CourseReply(rec, 404)
          ELSE IF /\ courses[c].instructorId # who.id
                  /\ ~(revision = 2 /\ who.role = "admin") THEN CourseReply(rec, 403)
          ELSE [rec EXCEPT !.pc = "findChapter"]]
    /\ UNCHANGED <<authVars, edgeVars, hits, boot, call, redisUp, mediaVars,
                   courses, chapters, lessons, nextLessonId>>

\* verifyChapterOwnership, second query: chapter.findUnique({id, courseId});
\* createLesson then parses the body
lesson_verifyChapter(k) ==
    /\ creq[k].pc = "findChapter"
    /\ creq' = [creq EXCEPT ![k] =
          IF chapters[creq[k].chapterId].courseId # creq[k].courseId THEN CourseReply(@, 404)
          ELSE IF creq[k].op = "deleteLesson" THEN [@ EXCEPT !.pc = "delete"]
          ELSE IF ~creq[k].valid THEN CourseReply(@, 400)
          ELSE [@ EXCEPT !.pc = "findFirst"]]
    /\ UNCHANGED <<authVars, edgeVars, hits, boot, call, redisUp, mediaVars,
                   courses, chapters, lessons, nextLessonId, courseOps>>

\* createLesson: lesson.findFirst for the order of the new lesson
createLesson_findFirst(k) ==
    /\ creq[k].pc = "findFirst"
    /\ creq' = [creq EXCEPT ![k].pc = "create"]
    /\ UNCHANGED <<authVars, edgeVars, hits, boot, call, redisUp, mediaVars,
                   courses, chapters, lessons, nextLessonId, courseOps>>

\* createLesson: lesson.create; the chapter's foreign key fails (P2003) when
\* the chapter has been deleted since it was read
createLesson_create(k) ==
    /\ creq[k].pc = "create"
    /\ IF chapters[creq[k].chapterId] = NoChapter
       THEN /\ creq' = [creq EXCEPT ![k] = CourseReply(@, handlePrismaError("P2003"))]
            /\ UNCHANGED <<lessons, nextLessonId>>
       ELSE /\ lessons' = [lessons EXCEPT ![nextLessonId] = [chapterId |-> creq[k].chapterId]]
            /\ nextLessonId' = nextLessonId + 1
            /\ creq' = [creq EXCEPT ![k] = [@ EXCEPT !.pc = "increment",
                                                     !.lessonId = nextLessonId]]
    /\ UNCHANGED <<authVars, edgeVars, hits, boot, call, redisUp, mediaVars,
                   courses, chapters, courseOps>>

\* createLesson: course.update({totalLessons: {increment: 1}}), 201
createLesson_increment(k) ==
    /\ creq[k].pc = "increment"
    /\ IF courses[creq[k].courseId] = NoCourse
       THEN /\ creq' = [creq EXCEPT ![k] = CourseReply(@, handlePrismaError("P2025"))]
            /\ UNCHANGED courses
       ELSE /\ courses' = [courses EXCEPT ![creq[k].courseId].totalLessons = @ + 1]
            /\ creq' = [creq EXCEPT ![k] = CourseReply(@, 201)]
    /\ UNCHANGED <<authVars, edgeVars, hits, boot, call, redisUp, mediaVars,
                   chapters, lessons, nextLessonId, courseOps>>

\* deleteLesson: lesson.delete({id, chapterId}); P2025 when no such row
deleteLesson_delete(k) ==
    /\ creq[k].pc = "delete"
    /\ IF lessons[creq[k].lessonId].chapterId # creq[k].chapterId
       THEN /\ creq' = [creq EXCEPT ![k] = CourseReply(@, handlePrismaError("P2025"))]
            /\ UNCHANGED lessons
       ELSE /\ lessons' = [lessons EXCEPT ![creq[k].lessonId] = NoLesson]
            /\ creq' = [creq EXCEPT ![k].pc = "decrement"]
    /\ UNCHANGED <<authVars, edgeVars, hits, boot, call, redisUp, mediaVars,
                   courses, chapters, nextLessonId, courseOps>>

\* deleteLesson: course.update({totalLessons: {decrement: 1}}), 200
deleteLesson_decrement(k) ==
    /\ creq[k].pc = "decrement"
    /\ IF courses[creq[k].courseId] = NoCourse
       THEN /\ creq' = [creq EXCEPT ![k] = CourseReply(@, handlePrismaError("P2025"))]
            /\ UNCHANGED courses
       ELSE /\ courses' = [courses EXCEPT ![creq[k].courseId].totalLessons = @ - 1]
            /\ creq' = [creq EXCEPT ![k] = CourseReply(@, 200)]
    /\ UNCHANGED <<authVars, edgeVars, hits, boot, call, redisUp, mediaVars,
                   chapters, lessons, nextLessonId, courseOps>>

\* deleteChapter: verifyCourseOwnership (course.findUnique, owner test)
deleteChapter_verify(k, c, ch, who) ==
    /\ CourseStart(k)
    /\ courseOps' = courseOps - 1
    /\ LET rec == [CourseIdle EXCEPT !.op = "deleteChapter", !.courseId = c,
                                     !.chapterId = ch, !.instructorId = who.id] IN
       creq' = [creq EXCEPT ![k] =
          IF courses[c] = NoCourse THEN CourseReply(rec, 404)
          ELSE IF courses[c].instructorId # who.id THEN CourseReply(rec, 403)
          ELSE [rec EXCEPT !.pc = "deleteChapter"]]
    /\ UNCHANGED <<authVars, edgeVars, hits, boot, call, redisUp, mediaVars,
                   courses, chapters, lessons, nextLessonId>>

\* deleteChapter: chapter.delete({id, courseId}), which "cascades to lessons";
\* the course row is not touched; 200, or 500 when no such chapter
deleteChapter_delete(k) ==
    /\ creq[k].pc = "deleteChapter"
    /\ IF chapters[creq[k].chapterId].courseId # creq[k].courseId
       THEN /\ creq' = [creq EXCEPT ![k] = CourseReply(@, 500)]
            /\ UNCHANGED <<chapters, lessons>>
       ELSE /\ chapters' = [chapters EXCEPT ![creq[k].chapterId] = NoChapter]
            /\ lessons' = [l \in LessonIds |->
                              IF lessons[l].chapterId = creq[k].chapterId
                              THEN NoLesson ELSE lessons[l]]
            /\ creq' = [creq EXCEPT ![k] = CourseReply(@, 200)]
    /\ UNCHANGED <<authVars, edgeVars, hits, boot, call, redisUp, mediaVars,
                   courses, nextLessonId, courseOps>>

\* deleteCourse: getInstructorId, course.findUnique, owner and status tests
deleteCourse_find(k, c, who) ==
    /\ CourseStart(k)
    /\ courseOps' = courseOps - 1
    /\ LET rec == [CourseIdle EXCEPT !.op = "deleteCourse", !.courseId = c,
                                     !.instructorId = who.id] IN
       creq' = [creq EXCEPT ![k] =
          IF courses[c] = NoCourse THEN CourseReply(rec, 404)
          ELSE IF courses[c].instructorId # who.id THEN CourseReply(rec, 403)
          ELSE IF courses[c].status = "PUBLISHED" THEN CourseReply(rec, 400)
          ELSE [rec EXCEPT !.pc = "deleteCourse"]]
    /\ UNCHANGED <<authVars, edgeVars, hits, boot, call, redisUp, mediaVars,
                   courses, chapters, lessons, nextLessonId>>

\* deleteCourse: course.delete({id}); the course's chapters and their lessons
\* go with it; 200, or 500 when the row is already gone
deleteCourse_delete(k) ==
    /\ creq[k].pc = "deleteCourse"
    /\ IF courses[creq[k].courseId] = NoCourse
       THEN /\ creq' = [creq EXCEPT ![k] = CourseReply(@, 500)]
            /\ UNCHANGED <<courses, chapters, lessons>>
       ELSE /\ courses' = [courses EXCEPT ![creq[k].courseId] = NoCourse]
            /\ chapters' = [ch \in ChapterIds |->
                               IF chapters[ch].courseId = creq[k].courseId
                               THEN NoChapter ELSE chapters[ch]]
            /\ lessons' = [l \in LessonIds |->
                              IF /\ lessons[l] # NoLesson
                                 /\ chapters[lessons[l].chapterId].courseId = creq[k].courseId
                              THEN NoLesson ELSE lessons[l]]
            /\ creq' = [creq EXCEPT ![k] = CourseReply(@, 200)]
    /\ UNCHANGED <<authVars, edgeVars, hits, boot, call, redisUp, mediaVars,
                   nextLessonId, courseOps>>

NextCourse ==
    \/ \E k \in CourseReq, op \in {"createLesson", "deleteLesson"}, c \in CourseIds,
          ch \in ChapterIds, l \in LessonIds \cup {0}, who \in Requesters,
          valid \in BOOLEAN : lesson_verifyCourse(k, op, c, ch, l, who, valid)
    \/ \E k \in CourseReq : lesson_verifyChapter(k)
    \/ \E k \in CourseReq : createLesson_findFirst(k)
    \/ \E k \in CourseReq : createLesson_create(k)
    \/ \E k \in CourseReq : createLesson_increment(k)
    \/ \E k \in CourseReq : deleteLesson_delete(k)
    \/ \E k \in CourseReq : deleteLesson_decrement(k)
    \/ \E k \in CourseReq, c \in CourseIds, ch \in ChapterIds, who \in Requesters :
          deleteChapter_verify(k, c, ch, who)
    \/ \E k \in CourseReq : deleteChapter_delete(k)
    \/ \E k \in CourseReq, c \in CourseIds, who \in Requesters : deleteCourse_find(k, c, who)
    \/ \E k \in CourseReq : deleteCourse_delete(k)

\* the tables after createCourse and createChapter: courses of instructor 1
\* in status DRAFT or PUBLISHED with totalLessons at its default, each chapter
\* in one of them, no lesson yet
InitCourse ==
    /\ InitStores
    /\ budget = [ops |-> 0, overlap |-> 0]
    /\ boot = Running
    /\ call = NoCall
    /\ mediaOps = 0
    /\ courses \in [CourseIds -> {[instructorId |-> "1", status |-> st, totalLessons |-> 0] :
                                     st \in {"DRAFT", "PUBLISHED"}}]
    /\ chapters \in [ChapterIds -> {[courseId |-> c] : c \in CourseIds}]
    /\ lessons = [l \in LessonIds |-> NoLesson]
    /\ nextLessonId = 1
    /\ creq = [k \in CourseReq |-> CourseIdle]
    /\ courseOps = MaxCourseOps

SpecCourse == InitCourse /\ [][NextCourse]_vars

\* the lesson rows in the chapters of course c
LessonsOf(c) ==
    {l \in LessonIds : lessons[l] # NoLesson /\ chapters[lessons[l].chapterId].courseId = c}

\* C30: once every createLesson, deleteLesson, deleteChapter and deleteCourse
\* request has completed, each course's totalLessons equals the number of
\* lesson rows in that course's chapters.
C30_TotalLessonsCountsRows ==
    (\A k \in CourseReq : CourseFree(k))
    => \A c \in CourseIds :
          courses[c] # NoCourse => courses[c].totalLessons = Cardinality(LessonsOf(c))

====
